---- MODULE Spec2Model ----
(***************************************************************************)
(* Model of the claims API server (src/server/index.js, lines 1-455):      *)
(* the in-memory session map, the SQLite tables `users` and `reklamacje`,  *)
(* and the express handlers, one action per segment of a handler between   *)
(* two awaits.  Text values are sequences of symbols so that slicing,      *)
(* trimming, padding and parsing are computed as the code computes them.   *)
(***************************************************************************)
EXTENDS Integers, Sequences, FiniteSets, TLC

(***************************************************************************)
(* Bounds of the model.                                                    *)
(***************************************************************************)
\* largest rowid the table may hand out (INSERT is not offered beyond it)
MaxRowId == 3
\* number of requests a run receives
MaxRequests == 4
\* number of bearer tokens crypto.randomUUID() may mint during a run
MaxTokens == 2

(***************************************************************************)
(* Text: a JS string is a sequence of symbols; NULL is SQL NULL / JS null. *)
(***************************************************************************)
NULL == <<"<null>">>
EmptyStr == <<>>
Space == " "

Digits == <<"0", "1", "2", "3", "4", "5", "6", "7", "8", "9">>

IsDigit(c) == \E i \in 1..10 : Digits[i] = c

DigitVal(c) == (CHOOSE i \in 1..10 : Digits[i] = c) - 1

\* String(n) for a non-negative integer n
RECURSIVE ToDigits(_)
ToDigits(n) == IF n < 10 THEN <<Digits[n + 1]>>
               ELSE ToDigits(n \div 10) \o <<Digits[(n % 10) + 1]>>

\* /^\d+$/.test(s)
IsDigitString(s) == Len(s) > 0 /\ \A i \in 1..Len(s) : IsDigit(s[i])

\* Number(s) for a string of decimal digits
RECURSIVE DigitsToNat(_)
DigitsToNat(s) == IF Len(s) = 0 THEN 0
                  ELSE 10 * DigitsToNat(SubSeq(s, 1, Len(s) - 1)) + DigitVal(s[Len(s)])

\* s.padStart(3, '0')
RECURSIVE padStart3(_)
padStart3(s) == IF Len(s) >= 3 THEN s ELSE padStart3(<<"0">> \o s)

\* s.slice(k): the string without its first k symbols
SliceFrom(s, k) == IF k >= Len(s) THEN <<>> ELSE SubSeq(s, k + 1, Len(s))

\* s.slice(0, k)
SliceTo(s, k) == IF k >= Len(s) THEN s ELSE SubSeq(s, 1, k)

\* s.trim()
RECURSIVE Trim(_)
Trim(s) == IF Len(s) = 0 THEN s
           ELSE IF s[1] = Space THEN Trim(Tail(s))
           ELSE IF s[Len(s)] = Space THEN Trim(SubSeq(s, 1, Len(s) - 1))
           ELSE s

\* ASCII lower-casing of one symbol (SQLite LIKE folds ASCII case)
LowerSym(c) == CASE c = "N" -> "n"
                 [] c = "Z" -> "z"
                 [] c = "G" -> "g"
                 [] OTHER -> c

\* value LIKE 'prefix%'
LikePrefix(value, prefix) ==
    /\ value # NULL
    /\ Len(value) >= Len(prefix)
    /\ \A i \in 1..Len(prefix) : LowerSym(value[i]) = LowerSym(prefix[i])

\* name.toLowerCase() on the column names and body keys of the model
toLowerCase(name) == CASE name = "Status" -> "status"
                       [] name = "STATUS" -> "status"
                       [] name = "Zglaszajacy" -> "zglaszajacy"
                       [] name = "Claim_Number" -> "claim_number"
                       [] name = "Data_Zgloszenia" -> "data_zgloszenia"
                       [] name = "Utworzono" -> "utworzono"
                       [] name = "Dzial" -> "dzial"
                       [] name = "Dept" -> "dept"
                       [] name = "ID" -> "id"
                       [] OTHER -> name

(***************************************************************************)
(* Column names are atomic; NoName is the null a lookup returns.           *)
(***************************************************************************)
NoName == "<none>"

\* the larger of a set of naturals
SetMax(S) == CHOOSE m \in S : \A x \in S : x <= m

\* a ?? ''
OrEmpty(v) == IF v = NULL THEN EmptyStr ELSE v

\* the full name without the trim
buildFullNameUntrimmed(user) ==
    OrEmpty(user.first_name) \o <<Space>> \o OrEmpty(user.last_name)

\* src/server/index.js:66-68
buildFullName(user) ==
    Trim(OrEmpty(user.first_name) \o <<Space>> \o OrEmpty(user.last_name))

\* src/server/index.js:62-64; schemaRows is the sequence PRAGMA table_info returns
findColumnName(schemaRows, expectedLowerName) ==
    LET hits == {i \in 1..Len(schemaRows) :
                    toLowerCase(schemaRows[i].name) = expectedLowerName}
    IN  IF hits = {} THEN NoName
        ELSE schemaRows[CHOOSE i \in hits : \A j \in hits : i <= j].name

\* new Set(schemaRows.map((row) => row.name))
ColumnSet(schemaRows) == {schemaRows[i].name : i \in 1..Len(schemaRows)}

\* the column that aliases the rowid: a single INTEGER PRIMARY KEY column
RowidAlias(schemaRows) ==
    LET pks == {i \in 1..Len(schemaRows) : schemaRows[i].pk # 0}
    IN  IF Cardinality(pks) = 1 /\ \A i \in pks : schemaRows[i].type = "INTEGER"
        THEN schemaRows[CHOOSE i \in pks : TRUE].name
        ELSE NoName

\* the columns a stored row carries a cell for (the rowid alias is the rowid)
StoredColumns(schemaRows) == ColumnSet(schemaRows) \ {RowidAlias(schemaRows)}

SchemaRow(schemaRows, column) ==
    schemaRows[CHOOSE i \in 1..Len(schemaRows) : schemaRows[i].name = column]

(***************************************************************************)
(* Dates: an instant is its local calendar year (getFullYear) and its UTC  *)
(* ISO-8601 rendering (toISOString).                                       *)
(***************************************************************************)
\* date.toISOString().slice(0, 10), src/server/index.js:50-52
formatDateOnly(date) == SliceTo(date.iso, 10)

\* s.replace('T', ' '): the first "T" only
RECURSIVE ReplaceFirstT(_)
ReplaceFirstT(s) == IF Len(s) = 0 THEN s
                    ELSE IF s[1] = "T" THEN <<Space>> \o Tail(s)
                    ELSE <<s[1]>> \o ReplaceFirstT(Tail(s))

\* date.toISOString().slice(0, 19).replace('T', ' '), src/server/index.js:54-56
formatDateTime(date) == ReplaceFirstT(SliceTo(date.iso, 19))

(***************************************************************************)
(* Claim numbers, src/server/index.js:96-114.                              *)
(***************************************************************************)
ClaimPrefix(year) == <<"N", "Z", "G", "-">> \o ToDigits(year) \o <<"-">>

\* SELECT claim_number FROM reklamacje WHERE claim_number LIKE 'prefix%'
SelectClaimNumbers(tbl, prefix) ==
    {tbl[id]["claim_number"] : id \in {i \in DOMAIN tbl : LikePrefix(tbl[i]["claim_number"], prefix)}}

\* the loop of lines 104-111 over the selected values
MaxSequence(values, prefix) ==
    SetMax({0} \cup {DigitsToNat(SliceFrom(v, Len(prefix))) :
                        v \in {w \in values : IsDigitString(SliceFrom(w, Len(prefix)))}})

\* a generator that hands out the largest sequence in use, not the one after it
generateClaimNumberInUse(tbl, year) ==
    ClaimPrefix(year) \o
        padStart3(ToDigits(MaxSequence(SelectClaimNumbers(tbl, ClaimPrefix(year)),
                                       ClaimPrefix(year))))

generateClaimNumber(tbl, year) ==
    LET prefix == ClaimPrefix(year)
        rows == SelectClaimNumbers(tbl, prefix)
    IN  prefix \o padStart3(ToDigits(MaxSequence(rows, prefix) + 1))

(***************************************************************************)
(* State.                                                                  *)
(***************************************************************************)
VARIABLES
    served,       \* the number of requests received so far
    sessions,     \* const sessions = new Map(): token -> session user (line 12)
    minted,       \* the tokens crypto.randomUUID() has returned so far
    users,        \* the rows of table users
    schema,       \* PRAGMA table_info(reklamacje): the columns of the claims table
    table,        \* table reklamacje: rowid -> (column -> value)
    req,          \* the requests being served: slot -> handler frame
    lastCreated,  \* history: the claim numbers returned by the latest completed requests, while
                  \* these were successful creates one after the other (the last two)
    issued,       \* history: the claim numbers creates have inserted since start
    removed       \* history: the rowids deletes have answered success for since the
                  \* latest INSERT of a create

vars == <<served, sessions, minted, users, schema, table, req, lastCreated, issued,
          removed>>

\* the request slots: at most two requests are in flight at a time
Slots == {1, 2}

NoUser == [id |-> 0, username |-> NULL, first_name |-> NULL, last_name |-> NULL,
           fullName |-> NULL, role |-> NULL, dept |-> NULL]
NoTime == [getFullYear |-> 0, iso |-> <<>>]
NoBody == <<>>
NaN == -1

\* the messages of the error bodies {error: "<message>"} that share a status
\* with another message or with a success; NoError where the status says it all
NoError == "none"
Unauthorized == "Unauthorized"
CredentialsRequired == "Username and password are required."
InvalidCredentials == "Invalid username or password."
InvalidRowId == "Invalid row id."
MissingRequiredFields == "Missing required fields: "
NoValidFields == "No valid fields provided."
NoEditableFields == "No editable fields provided."
\* `Failed to <login, read, create, update, delete>: ${error.message}`
FailedTo == "Failed to"

\* a handler frame: the route, the request's inputs, the locals that live
\* across an await, and the response; raced and vanished are history: what
\* other requests did to the frame's number and row while it waited
IdleFrame ==
    [pc |-> "idle", op |-> "none", token |-> NULL, user |-> NoUser,
     rowId |-> 0, body |-> NoBody, username |-> NULL, password |-> NULL,
     db |-> "none", now |-> NoTime, num |-> NULL, lastID |-> 0,
     status |-> 0, outRows |-> {}, outToken |-> NULL, outUser |-> NoUser,
     raced |-> FALSE, error |-> NoError, missing |-> {}, vanished |-> FALSE]

Busy(r) == req[r].pc \notin {"idle", "done"}

\* requests are taken into the lowest free slot (slots are interchangeable)
FreeSlot(r) == ~Busy(r) /\ \A q \in Slots : q < r => Busy(q)

\* a request arrives and slot r takes it
Arrives(r) == FreeSlot(r) /\ served < MaxRequests /\ served' = served + 1

\* the frames once slot r takes a new request with frame f: the frames of the
\* requests already answered are dropped, nothing reads them again
Take(r, f) == [q \in Slots |-> IF q = r THEN f ELSE IF Busy(q) THEN req[q] ELSE IdleFrame]

\* res.status(code).json(...) followed by the handler's return: the frame keeps
\* the route, the caller and the response
Respond(f, code) ==
    [f EXCEPT !.pc = "done", !.status = code, !.body = NoBody,
              !.username = NULL, !.password = NULL, !.now = NoTime]

\* res.status(code).json({ error: message }) followed by the handler's return
Fail(f, code, message) == [Respond(f, code) EXCEPT !.error = message]

\* a handler exit that does not close the handle
CloseNothing(f) == f

\* db.close() in a finally block or before an early return: the open handle
\* is closed; a close of a handle that is not open is a misuse
Close(f) == [f EXCEPT !.db = IF f.db = "open" THEN "closed" ELSE "misuse"]

(***************************************************************************)
(* The authentication gate, src/server/index.js:153-165.  A header is the  *)
(* text of the Authorization header, <<>> when the header is absent.       *)
(***************************************************************************)
BearerPrefix == <<"B", "e", "a", "r", "e", "r", Space>>

StartsWith(s, prefix) ==
    Len(s) >= Len(prefix) /\ SubSeq(s, 1, Len(prefix)) = prefix

\* header.startsWith('Bearer ') ? header.slice(7) : null
HeaderToken(header) ==
    IF StartsWith(header, BearerPrefix) THEN SliceFrom(header, 7) ELSE NULL

\* a gate that asks for a token and does not look it up in the session map
authMiddlewareAnyToken(header) ==
    HeaderToken(header) # NULL /\ HeaderToken(header) # EmptyStr

\* the gate lets the request through: !(!token || !sessions.has(token))
authMiddleware(header) ==
    LET token == HeaderToken(header)
    IN  token # NULL /\ token # EmptyStr /\ token \in DOMAIN sessions

\* sessions.get(token): undefined for a token that is no key
SessionGet(token) == IF token \in DOMAIN sessions THEN sessions[token] ELSE NoUser

\* the frame of a request the gate has let through (lines 162-164)
Admitted(op, header) ==
    [IdleFrame EXCEPT !.op = op, !.token = HeaderToken(header),
                      !.user = SessionGet(HeaderToken(header))]

\* the frame of a request the gate has answered with 401
Rejected(op, header) ==
    [IdleFrame EXCEPT !.op = op, !.token = HeaderToken(header),
                      !.pc = "done", !.status = 401, !.error = Unauthorized]

Unchanged_db == UNCHANGED <<users, schema, table>>
Unchanged_hist == UNCHANGED <<lastCreated, issued, removed>>

\* a request completes without being a successful create
Completes == lastCreated' = <<>> /\ UNCHANGED <<issued, removed>>

(***************************************************************************)
(* Login, logout, me: src/server/index.js:167-217.                         *)
(***************************************************************************)
\* the token pool crypto.randomUUID() draws from; it never repeats a token
TokenPool == {<<"t", Digits[i + 1]>> : i \in 1..MaxTokens}

\* crypto.randomUUID(): a token not returned before.  Tokens are opaque and
\* interchangeable, so the pool is drawn in order
randomUUID == {t \in TokenPool \ minted :
                 \A u \in TokenPool \ minted : DigitVal(t[2]) <= DigitVal(u[2])}

\* a lookup by username alone
FindUserByName(username, password) ==
    LET hits == {i \in 1..Len(users) : users[i].username = username}
    IN  IF hits = {} THEN 0 ELSE CHOOSE i \in hits : \A j \in hits : i <= j

\* SELECT ... FROM users WHERE username = ? AND password = ?, first row or none
FindUser(username, password) ==
    LET hits == {i \in 1..Len(users) :
                    users[i].username = username /\ users[i].password = password}
    IN  IF hits = {} THEN 0 ELSE CHOOSE i \in hits : \A j \in hits : i <= j

\* the session snapshot of lines 191-199
sessionUser(user) ==
    [id |-> user.id, username |-> user.username,
     first_name |-> user.first_name, last_name |-> user.last_name,
     fullName |-> buildFullName(user), role |-> user.role, dept |-> user.dept]

\* lines 167-176: the synchronous head of the login handler
ReceiveLogin(r, username, password) ==
    /\ Arrives(r)
    /\ LET u == Trim(OrEmpty(username))
           p == OrEmpty(password)
           f == [IdleFrame EXCEPT !.op = "login", !.db = "open",
                                  !.username = u, !.password = p]
       IN  IF u = EmptyStr \/ p = EmptyStr
           THEN /\ req' = Take(r, Close(Fail(f, 400, CredentialsRequired)))
                /\ Completes
           ELSE /\ req' = Take(r, [f EXCEPT !.pc = "login_query"])
                /\ Unchanged_hist
    /\ UNCHANGED <<sessions, minted>>
    /\ Unchanged_db

\* lines 178-207: the credential lookup and what follows it
LoginQuery(r) ==
    /\ req[r].pc = "login_query"
    /\ LET f == req[r]
           i == FindUser(f.username, f.password)
       IN  IF i = 0
           THEN /\ req' = [req EXCEPT ![r] = Close(Fail(f, 401, InvalidCredentials))]
                /\ UNCHANGED <<sessions, minted>>
           ELSE \E token \in randomUUID :
                    /\ sessions' = [t \in DOMAIN sessions \cup {token} |->
                                       IF t = token THEN sessionUser(users[i])
                                       ELSE sessions[t]]
                    /\ minted' = minted \cup {token}
                    /\ req' = [req EXCEPT ![r] =
                                 Close([Respond(f, 200) EXCEPT
                                          !.outToken = token,
                                          !.outUser = sessionUser(users[i])])]
    /\ Completes
    /\ Unchanged_db
    /\ UNCHANGED served

\* variant of ReceiveLogout: the logout empties the session map
ReceiveLogoutEverySession(r, header) ==
    /\ Arrives(r)
    /\ IF authMiddleware(header)
       THEN /\ sessions' = <<>>
            /\ req' = Take(r, Respond(Admitted("logout", header), 200))
       ELSE /\ req' = Take(r, Rejected("logout", header))
            /\ UNCHANGED sessions
    /\ Completes
    /\ UNCHANGED minted
    /\ Unchanged_db

\* variant of ReceiveLogout: the token stays in the session map
ReceiveLogoutKeepsSession(r, header) ==
    /\ Arrives(r)
    /\ req' = Take(r, IF authMiddleware(header)
                      THEN Respond(Admitted("logout", header), 200)
                      ELSE Rejected("logout", header))
    /\ UNCHANGED sessions
    /\ Completes
    /\ UNCHANGED minted
    /\ Unchanged_db

\* line 210-213
ReceiveLogout(r, header) ==
    /\ Arrives(r)
    /\ IF authMiddleware(header)
       THEN /\ sessions' = [t \in DOMAIN sessions \ {HeaderToken(header)} |-> sessions[t]]
            /\ req' = Take(r, Respond(Admitted("logout", header), 200))
       ELSE /\ req' = Take(r, Rejected("logout", header))
            /\ UNCHANGED sessions
    /\ Completes
    /\ UNCHANGED minted
    /\ Unchanged_db

\* line 215-217
ReceiveMe(r, header) ==
    /\ Arrives(r)
    /\ IF authMiddleware(header)
       THEN req' = Take(r, [Respond(Admitted("me", header), 200) EXCEPT
                          !.outUser = SessionGet(HeaderToken(header))])
       ELSE req' = Take(r, Rejected("me", header))
    /\ Completes
    /\ UNCHANGED <<sessions, minted>>
    /\ Unchanged_db

(***************************************************************************)
(* The heads of the store-backed routes: the gate, openDb, and for PUT and *)
(* DELETE the row id check (lines 370-378, 419-427).                       *)
(***************************************************************************)
\* a JS number with a fractional part (1.5): a number that is no integer
Fraction == -2

\* the positions of the decimal point in a path segment
Points(segment) == {i \in 1..Len(segment) : segment[i] = "."}

\* digits, or nothing
IsDigitsOrEmpty(s) == \A i \in 1..Len(s) : IsDigit(s[i])

\* Number(s) for s in decimal notation with one point, "1.5", "1.0", "1.", ".5":
\* the integer before the point when the digits after it are zeros
DecimalToNumber(s) ==
    LET p == CHOOSE i \in Points(s) : TRUE
        whole == SubSeq(s, 1, p - 1)
        part == SubSeq(s, p + 1, Len(s))
    IN  IF ~IsDigitsOrEmpty(whole) \/ ~IsDigitsOrEmpty(part) \/ Len(whole) + Len(part) = 0
        THEN NaN
        ELSE IF \E i \in 1..Len(part) : part[i] # "0" THEN Fraction
        ELSE DigitsToNat(whole)

\* Number(req.params.rowId) for a path segment
JsNumber(segment) ==
    IF IsDigitString(segment) THEN DigitsToNat(segment)
    ELSE IF Cardinality(Points(segment)) = 1 THEN DecimalToNumber(segment)
    ELSE NaN

\* a test for a number, integer or not
IsIntegerAnyNumber(n) == n # NaN

\* Number.isInteger(rowId)
IsInteger(n) == n # NaN /\ n # Fraction

\* GET /api/claims/schema, GET /api/claims, POST /api/claims up to the first await
ReceiveRead(r, op, header, body) ==
    /\ Arrives(r)
    /\ op \in {"schema", "list", "create"}
    /\ IF authMiddleware(header)
       THEN /\ req' = Take(r, [Admitted(op, header) EXCEPT
                             !.db = "open", !.pc = "schema",
                             !.body = IF op = "create" THEN body ELSE NoBody])
            /\ Unchanged_hist
       ELSE /\ req' = Take(r, Rejected(op, header))
            /\ Completes
    /\ UNCHANGED <<sessions, minted>>
    /\ Unchanged_db

\* PUT and DELETE /api/claims/:rowId up to the first await
ReceiveWrite(r, op, header, segment, body) ==
    /\ Arrives(r)
    /\ op \in {"update", "delete"}
    /\ IF ~authMiddleware(header)
       THEN /\ req' = Take(r, Rejected(op, header))
            /\ Completes
       ELSE LET f == [Admitted(op, header) EXCEPT
                         !.db = "open", !.rowId = JsNumber(segment),
                         !.body = IF op = "update" THEN body ELSE NoBody]
            IN  IF ~IsInteger(f.rowId)
                THEN /\ req' = Take(r, Close(Fail(f, 400, InvalidRowId)))
                     /\ Completes
                ELSE /\ req' = Take(r, [f EXCEPT !.pc = "schema"])
                     /\ Unchanged_hist
    /\ UNCHANGED <<sessions, minted>>
    /\ Unchanged_db

(***************************************************************************)
(* The store: SQLite's INSERT, UPDATE, DELETE and SELECT on reklamacje.    *)
(* A statement's outcome is a record; ok = FALSE is a rejected statement   *)
(* (constraint failed, datatype mismatch), which the handler's catch turns *)
(* into a 500.                                                             *)
(***************************************************************************)
\* the rowid SQLite gives a row inserted without one: the largest in use plus 1
NextRowId(tbl) == IF DOMAIN tbl = {} THEN 1 ELSE SetMax(DOMAIN tbl) + 1

\* a NOT NULL column of the row holds NULL
ViolatesNotNull(schemaRows, row) ==
    \E c \in StoredColumns(schemaRows) :
        SchemaRow(schemaRows, c).notnull = 1 /\ row[c] = NULL

\* the table with key k removed
Without(tbl, k) == [i \in DOMAIN tbl \ {k} |-> tbl[i]]

\* the table with row stored under key k
With(tbl, k, row) == [i \in DOMAIN tbl \cup {k} |-> IF i = k THEN row ELSE tbl[i]]

\* the INSERT against a table with a UNIQUE index on claim_number
SqlInsertUnique(tbl, schemaRows, entries) ==
    LET row == [c \in StoredColumns(schemaRows) |->
                   IF c \in DOMAIN entries THEN entries[c]
                   ELSE SchemaRow(schemaRows, c).dflt_value]
        id == NextRowId(tbl)
        taken == /\ "claim_number" \in DOMAIN row
                 /\ row["claim_number"] # NULL
                 /\ \E i \in DOMAIN tbl : tbl[i]["claim_number"] = row["claim_number"]
    IN  IF taken \/ ViolatesNotNull(schemaRows, row)
        THEN [ok |-> FALSE, tbl |-> tbl, lastID |-> 0]
        ELSE [ok |-> TRUE, tbl |-> With(tbl, id, row), lastID |-> id]

\* INSERT INTO reklamacje (columns of entries) VALUES (values of entries)
SqlInsert(tbl, schemaRows, entries) ==
    LET alias == RowidAlias(schemaRows)
        row == [c \in StoredColumns(schemaRows) |->
                   IF c \in DOMAIN entries THEN entries[c]
                   ELSE SchemaRow(schemaRows, c).dflt_value]
        given == alias \in DOMAIN entries /\ entries[alias] # NULL
        id == IF given
              THEN (IF IsDigitString(entries[alias]) THEN DigitsToNat(entries[alias]) ELSE NaN)
              ELSE NextRowId(tbl)
    IN  IF id = NaN \/ id \in DOMAIN tbl \/ ViolatesNotNull(schemaRows, row)
        THEN [ok |-> FALSE, tbl |-> tbl, lastID |-> 0]
        ELSE [ok |-> TRUE, tbl |-> With(tbl, id, row), lastID |-> id]

\* UPDATE reklamacje SET (entries) WHERE rowid = rowId
SqlUpdate(tbl, schemaRows, entries, rowId) ==
    IF rowId \notin DOMAIN tbl
    THEN [ok |-> TRUE, tbl |-> tbl, changes |-> 0]
    ELSE LET alias == RowidAlias(schemaRows)
             row == [c \in StoredColumns(schemaRows) |->
                        IF c \in DOMAIN entries THEN entries[c] ELSE tbl[rowId][c]]
             id == IF alias \in DOMAIN entries
                   THEN (IF IsDigitString(entries[alias])
                         THEN DigitsToNat(entries[alias]) ELSE NaN)
                   ELSE rowId
         IN  IF id = NaN \/ (id # rowId /\ id \in DOMAIN tbl)
                \/ ViolatesNotNull(schemaRows, row)
             THEN [ok |-> FALSE, tbl |-> tbl, changes |-> 0]
             ELSE [ok |-> TRUE, tbl |-> With(Without(tbl, rowId), id, row), changes |-> 1]

\* a DELETE that reports a change whether or not it found the row
SqlDeleteReportsChange(tbl, rowId) == [tbl |-> Without(tbl, rowId), changes |-> 1]

\* DELETE FROM reklamacje WHERE rowid = rowId
SqlDelete(tbl, rowId) ==
    IF rowId \in DOMAIN tbl
    THEN [tbl |-> Without(tbl, rowId), changes |-> 1]
    ELSE [tbl |-> tbl, changes |-> 0]

\* a row as SELECT rowid AS _rowid_, * returns it
OutRow(tbl, id) == [rowid |-> id, cols |-> tbl[id]]

\* SELECT rowid AS _rowid_, * FROM reklamacje WHERE rowid = id
SelectById(tbl, id) == {OutRow(tbl, i) : i \in DOMAIN tbl \cap {id}}

\* SELECT rowid AS _rowid_, * FROM reklamacje
SelectAll(tbl) == {OutRow(tbl, i) : i \in DOMAIN tbl}

\* SELECT rowid AS _rowid_, * FROM reklamacje WHERE "reporterColumn" = fullName
SelectByReporter(tbl, reporterColumn, fullName) ==
    {OutRow(tbl, i) : i \in {j \in DOMAIN tbl :
                                /\ tbl[j][reporterColumn] # NULL
                                /\ fullName # NULL
                                /\ tbl[j][reporterColumn] = fullName}}

\* the schema read: PRAGMA table_info(reklamacje), lines 58-60
loadTableSchema == schema

(***************************************************************************)
(* Row access control, src/server/index.js:343-368.                        *)
(***************************************************************************)
Admin == <<"admin">>

\* an access check that finds the row and does not compare its reporter
ensureUserCanAccessRowFound(tbl, schemaRows, rowId, user) ==
    IF rowId \in DOMAIN tbl THEN [ok |-> TRUE, status |-> 0]
    ELSE [ok |-> FALSE, status |-> 404]

\* the function returns before its SELECT: lines 344-351
AccessWithoutRead(schemaRows, user) ==
    user.role = Admin \/ findColumnName(schemaRows, "zglaszajacy") = NoName

\* the whole function; the SELECT of lines 353-357 reads tbl
ensureUserCanAccessRow(tbl, schemaRows, rowId, user) ==
    LET reporterColumn == findColumnName(schemaRows, "zglaszajacy")
    IN  IF AccessWithoutRead(schemaRows, user) THEN [ok |-> TRUE, status |-> 0]
        ELSE IF rowId \notin DOMAIN tbl THEN [ok |-> FALSE, status |-> 404]
        ELSE IF OrEmpty(tbl[rowId][reporterColumn]) # user.fullName
             THEN [ok |-> FALSE, status |-> 403]
        ELSE [ok |-> TRUE, status |-> 0]

(***************************************************************************)
(* GET /api/claims/schema and GET /api/claims, lines 219-257; department   *)
(* enrichment, lines 70-94.                                                *)
(***************************************************************************)
\* row[key], undefined read as null
Get(cols, key) == IF key \in DOMAIN cols THEN cols[key] ELSE NULL

\* a ?? b
Coalesce(a, b) == IF a # NULL THEN a ELSE b

\* deptByFullName.get(name) ?? '': of the users with that full name the last one wins
DeptByFullName(userRows, name) ==
    LET hits == {i \in 1..Len(userRows) : buildFullName(userRows[i]) = name}
    IN  IF hits = {} THEN EmptyStr
        ELSE OrEmpty(userRows[SetMax(hits)].dept)

enrichRow(userRows, row) ==
    LET existingDept == Coalesce(Get(row.cols, "dept"), Get(row.cols, "dzial"))
        reporter == OrEmpty(Get(row.cols, "zglaszajacy"))
        mappedDept == DeptByFullName(userRows, reporter)
    IN  IF existingDept # NULL /\ existingDept # EmptyStr THEN row
        ELSE [row EXCEPT !.cols = [k \in DOMAIN row.cols \cup {"dept"} |->
                                      IF k = "dept" THEN mappedDept ELSE row.cols[k]]]

enrichClaimsWithDept(userRows, rows) == {enrichRow(userRows, row) : row \in rows}

\* a list SELECT that shows rows to administrators alone
ListQueryAdminOnly(tbl, schemaRows, user) ==
    IF user.role = Admin THEN SelectAll(tbl) ELSE {}

\* a list SELECT without the reporter filter
ListQueryUnfiltered(tbl, schemaRows, user) == SelectAll(tbl)

\* the SELECT of the list handler: lines 238-249
ListQuery(tbl, schemaRows, user) ==
    LET reporterColumn == findColumnName(schemaRows, "zglaszajacy")
    IN  IF user.role = Admin \/ reporterColumn = NoName
        THEN SelectAll(tbl)
        ELSE SelectByReporter(tbl, reporterColumn, user.fullName)

\* GET /api/claims/schema: the schema read and the response
SchemaRespond(r) ==
    /\ req[r].pc = "schema" /\ req[r].op = "schema"
    /\ req' = [req EXCEPT ![r] = Close(Respond(req[r], 200))]
    /\ Completes
    /\ UNCHANGED <<sessions, minted>>
    /\ Unchanged_db
    /\ UNCHANGED served

\* GET /api/claims: the schema read; the row SELECT is issued
ListLoadSchema(r) ==
    /\ req[r].pc = "schema" /\ req[r].op = "list"
    /\ req' = [req EXCEPT ![r].pc = "select"]
    /\ Unchanged_hist
    /\ UNCHANGED <<sessions, minted>>
    /\ Unchanged_db
    /\ UNCHANGED served

\* the row SELECT; with no rows enrichClaimsWithDept returns at once
ListSelect(r) ==
    /\ req[r].pc = "select"
    /\ LET rows == ListQuery(table, loadTableSchema, req[r].user)
       IN  IF rows = {}
           THEN /\ req' = [req EXCEPT ![r] = Close(Respond(req[r], 200))]
                /\ Completes
           ELSE /\ req' = [req EXCEPT ![r].pc = "enrich", ![r].outRows = rows]
                /\ Unchanged_hist
    /\ UNCHANGED <<sessions, minted>>
    /\ Unchanged_db
    /\ UNCHANGED served

\* the users SELECT of enrichClaimsWithDept and the response
ListEnrich(r) ==
    /\ req[r].pc = "enrich"
    /\ req' = [req EXCEPT ![r] =
                 Close([Respond(req[r], 200) EXCEPT
                          !.outRows = enrichClaimsWithDept(users, req[r].outRows)])]
    /\ Completes
    /\ UNCHANGED <<sessions, minted>>
    /\ Unchanged_db
    /\ UNCHANGED served

(***************************************************************************)
(* POST /api/claims, src/server/index.js:259-340.                          *)
(***************************************************************************)
Nowe == <<"Nowe">>

\* lines 267-277
disallowedOnCreate ==
    {"id", "_rowid_", "claim_number", "data_zgloszenia", "status", "utworzono",
     "zglaszajacy", "dzial", "dept"}

\* the function f restricted to the keys in K
Restrict(f, K) == [k \in DOMAIN f \cap K |-> f[k]]

\* lines 278-280
allowedEntries(body, columns) ==
    Restrict(body, {key \in DOMAIN body :
                       key \in columns /\ toLowerCase(key) \notin disallowedOnCreate})

\* findColumnName(schemaRows, 'dept') || findColumnName(schemaRows, 'dzial')
DeptColumn(schemaRows) ==
    IF findColumnName(schemaRows, "dept") # NoName
    THEN findColumnName(schemaRows, "dept")
    ELSE findColumnName(schemaRows, "dzial")

\* lines 285-306: the server-computed entries, column -> value
defaultEntries(schemaRows, user, now, nextClaimNumber) ==
    LET columns == ColumnSet(schemaRows)
        reporterColumn == findColumnName(schemaRows, "zglaszajacy")
        deptColumn == DeptColumn(schemaRows)
        exact == {"data_zgloszenia", "status", "utworzono", "claim_number"} \cap columns
        found == {reporterColumn, deptColumn} \ {NoName}
    IN  [c \in exact \cup found |->
            CASE c = "data_zgloszenia" -> formatDateOnly(now)
              [] c = "status" -> Nowe
              [] c = "utworzono" -> formatDateTime(now)
              [] c = "claim_number" -> nextClaimNumber
              [] c = reporterColumn -> user.fullName
              [] OTHER -> OrEmpty(user.dept)]

\* line 308: [...defaultEntries, ...allowedEntries]; the two never share a column
CreateEntries(schemaRows, f) ==
    LET d == defaultEntries(schemaRows, f.user, f.now, f.num)
        a == allowedEntries(f.body, ColumnSet(schemaRows))
    IN  [c \in DOMAIN d \cup DOMAIN a |-> IF c \in DOMAIN d THEN d[c] ELSE a[c]]

\* a required-column filter that does not exempt the columns with a default
missingRequiredColumnsNoDefault(schemaRows, entries) ==
    {schemaRows[i].name : i \in {j \in 1..Len(schemaRows) :
        /\ schemaRows[j].notnull = 1
        /\ schemaRows[j].pk = 0
        /\ schemaRows[j].name \notin DOMAIN entries}}

\* lines 310-314
missingRequiredColumns(schemaRows, entries) ==
    {schemaRows[i].name : i \in {j \in 1..Len(schemaRows) :
        /\ schemaRows[j].notnull = 1
        /\ schemaRows[j].dflt_value = NULL
        /\ schemaRows[j].pk = 0
        /\ schemaRows[j].name \notin DOMAIN entries}}

\* lines 308-332 up to the INSERT being issued: the frame that results
CreateDecide(schemaRows, f) ==
    LET entries == CreateEntries(schemaRows, f)
    IN  IF missingRequiredColumns(schemaRows, entries) # {}
        THEN Close([Fail(f, 400, MissingRequiredFields) EXCEPT
                      !.missing = missingRequiredColumns(schemaRows, entries)])
        ELSE IF DOMAIN entries = {} THEN Close(Fail(f, 400, NoValidFields))
        ELSE [f EXCEPT !.pc = "insert"]

\* the schema read and lines 264-296; now is the clock read of line 282
CreateLoadSchema(r, now) ==
    /\ req[r].pc = "schema" /\ req[r].op = "create"
    /\ LET f == [req[r] EXCEPT !.now = now]
           g == IF "claim_number" \in ColumnSet(loadTableSchema)
                THEN [f EXCEPT !.pc = "scan"]
                ELSE CreateDecide(loadTableSchema, f)
       IN  /\ req' = [req EXCEPT ![r] = g]
           /\ IF g.pc = "done" THEN Completes ELSE Unchanged_hist
    /\ UNCHANGED <<sessions, minted>>
    /\ Unchanged_db
    /\ UNCHANGED served

\* the SELECT of generateClaimNumber and lines 297-332
CreateScan(r) ==
    /\ req[r].pc = "scan"
    /\ LET f == [req[r] EXCEPT !.num = generateClaimNumber(table, req[r].now.getFullYear)]
           g == CreateDecide(schema, f)
       IN  /\ req' = [req EXCEPT ![r] = g]
           /\ IF g.pc = "done" THEN Completes ELSE Unchanged_hist
    /\ UNCHANGED <<sessions, minted>>
    /\ Unchanged_db
    /\ UNCHANGED served

\* the number a create inserted is recorded as the largest of its year
Issue(f) ==
    IF f.num = NULL THEN issued
    ELSE LET y == f.now.getFullYear
             n == DigitsToNat(SliceFrom(f.num, Len(ClaimPrefix(y))))
         IN  [k \in DOMAIN issued \cup {y} |->
                 IF k = y /\ (y \notin DOMAIN issued \/ issued[y] < n) THEN n
                 ELSE issued[k]]

\* another create holds the same number and has not inserted yet
RacesWith(r) ==
    \E q \in Slots \ {r} :
        /\ req[q].op = "create" /\ req[q].pc = "insert"
        /\ req[r].num # NULL /\ req[q].num = req[r].num

\* the INSERT of line 332
CreateInsert(r) ==
    /\ req[r].pc = "insert"
    /\ NextRowId(table) <= MaxRowId
    /\ LET f == req[r]
           res == SqlInsert(table, schema, CreateEntries(schema, f))
       IN  IF res.ok
           THEN /\ table' = res.tbl
                /\ req' = [req EXCEPT ![r].pc = "reread", ![r].lastID = res.lastID,
                                      ![r].raced = RacesWith(r)]
                /\ issued' = Issue(f)
                /\ removed' = {}
                /\ UNCHANGED lastCreated
           ELSE /\ req' = [req EXCEPT ![r] = Close(Fail(f, 500, FailedTo))]
                /\ Completes
                /\ UNCHANGED table
    /\ UNCHANGED <<sessions, minted, users, schema>>
    /\ UNCHANGED served

\* the claim number of the row a create returns, NULL when there is none
ReturnedNumber(rows) ==
    IF rows = {} THEN NULL
    ELSE Get((CHOOSE row \in rows : TRUE).cols, "claim_number")

\* the SELECT of line 333 and the 201 response
CreateReread(r) ==
    /\ req[r].pc = "reread" /\ req[r].op = "create"
    /\ LET rows == SelectById(table, req[r].lastID)
       IN  /\ req' = [req EXCEPT ![r] =
                        Close([Respond(req[r], 201) EXCEPT !.outRows = rows])]
           /\ lastCreated' = IF ReturnedNumber(rows) = NULL THEN <<>>
                             ELSE IF lastCreated = <<>> THEN <<ReturnedNumber(rows)>>
                             ELSE <<lastCreated[Len(lastCreated)], ReturnedNumber(rows)>>
    /\ UNCHANGED <<sessions, minted, issued, removed>>
    /\ Unchanged_db
    /\ UNCHANGED served

(***************************************************************************)
(* PUT /api/claims/:rowId, src/server/index.js:370-414.                    *)
(***************************************************************************)
\* an update that keeps every key of the body
UpdateEntriesUnfiltered(schemaRows, body) == body

\* line 391: the body filtered to the schema's columns
UpdateEntries(schemaRows, body) == Restrict(body, ColumnSet(schemaRows))

\* an update that looks at the body before the access decision
UpdateDecideBodyFirst(schemaRows, f, access) ==
    IF DOMAIN Restrict(f.body, ColumnSet(schemaRows)) = {}
    THEN Close(Fail(f, 400, NoEditableFields))
    ELSE IF ~access.ok THEN Close(Respond(f, access.status))
    ELSE [f EXCEPT !.pc = "write"]

\* lines 385-400 once the access decision is known: the frame that results
UpdateDecide(schemaRows, f, access) ==
    IF ~access.ok THEN Close(Respond(f, access.status))
    ELSE IF DOMAIN UpdateEntries(schemaRows, f.body) = {}
         THEN Close(Fail(f, 400, NoEditableFields))
    ELSE [f EXCEPT !.pc = "write"]

\* the schema read; a caller the access check passes without a read goes on
UpdateLoadSchema(r) ==
    /\ req[r].pc = "schema" /\ req[r].op = "update"
    /\ LET f == req[r]
           g == IF AccessWithoutRead(loadTableSchema, f.user)
                THEN UpdateDecide(loadTableSchema, f,
                         ensureUserCanAccessRow(table, loadTableSchema, f.rowId, f.user))
                ELSE [f EXCEPT !.pc = "check"]
       IN  /\ req' = [req EXCEPT ![r] = g]
           /\ IF g.pc = "done" THEN Completes ELSE Unchanged_hist
    /\ UNCHANGED <<sessions, minted>>
    /\ Unchanged_db
    /\ UNCHANGED served

\* the SELECT of ensureUserCanAccessRow and lines 385-400
UpdateAccess(r) ==
    /\ req[r].pc = "check" /\ req[r].op = "update"
    /\ LET f == req[r]
           g == UpdateDecide(schema, f,
                    ensureUserCanAccessRow(table, schema, f.rowId, f.user))
       IN  /\ req' = [req EXCEPT ![r] = g]
           /\ IF g.pc = "done" THEN Completes ELSE Unchanged_hist
    /\ UNCHANGED <<sessions, minted>>
    /\ Unchanged_db
    /\ UNCHANGED served

\* the UPDATE of line 400 and lines 402-405
UpdateWrite(r) ==
    /\ req[r].pc = "write" /\ req[r].op = "update"
    /\ LET f == req[r]
           res == SqlUpdate(table, schema, UpdateEntries(schema, f.body), f.rowId)
       IN  IF ~res.ok
           THEN /\ req' = [req EXCEPT ![r] = Close(Fail(f, 500, FailedTo))]
                /\ Completes
                /\ UNCHANGED table
           ELSE IF res.changes = 0
           THEN /\ req' = [req EXCEPT ![r] = Close(Respond(f, 404))]
                /\ Completes
                /\ UNCHANGED table
           ELSE /\ table' = res.tbl
                /\ req' = [req EXCEPT ![r].pc = "reread", ![r].body = NoBody]
                /\ Unchanged_hist
    /\ UNCHANGED <<sessions, minted, users, schema>>
    /\ UNCHANGED served

\* the SELECT of line 407 and the response
UpdateReread(r) ==
    /\ req[r].pc = "reread" /\ req[r].op = "update"
    /\ req' = [req EXCEPT ![r] =
                 Close([Respond(req[r], 200) EXCEPT
                          !.outRows = SelectById(table, req[r].rowId)])]
    /\ Completes
    /\ UNCHANGED <<sessions, minted>>
    /\ Unchanged_db
    /\ UNCHANGED served

(***************************************************************************)
(* DELETE /api/claims/:rowId, src/server/index.js:419-449.                 *)
(***************************************************************************)
\* lines 432-437 once the access decision is known
DeleteDecide(f, access) ==
    IF ~access.ok THEN Close(Respond(f, access.status))
    ELSE [f EXCEPT !.pc = "write"]

DeleteLoadSchema(r) ==
    /\ req[r].pc = "schema" /\ req[r].op = "delete"
    /\ LET f == req[r]
           g == IF AccessWithoutRead(loadTableSchema, f.user)
                THEN DeleteDecide(f, ensureUserCanAccessRow(table, loadTableSchema,
                                                            f.rowId, f.user))
                ELSE [f EXCEPT !.pc = "check"]
       IN  req' = [req EXCEPT ![r] = g]
    /\ Unchanged_hist
    /\ UNCHANGED <<sessions, minted>>
    /\ Unchanged_db
    /\ UNCHANGED served

DeleteAccess(r) ==
    /\ req[r].pc = "check" /\ req[r].op = "delete"
    /\ LET f == req[r]
           g == DeleteDecide(f, ensureUserCanAccessRow(table, schema, f.rowId, f.user))
       IN  /\ req' = [req EXCEPT ![r] = g]
           /\ IF g.pc = "done" THEN Completes ELSE Unchanged_hist
    /\ UNCHANGED <<sessions, minted>>
    /\ Unchanged_db
    /\ UNCHANGED served

\* frame g is past its access check and about to run its statement on the
\* row that is being deleted
LosesRow(g, rowId) ==
    g.op \in {"update", "delete"} /\ g.pc = "write" /\ g.rowId = rowId

\* the DELETE of line 437 and lines 438-443
DeleteWrite(r) ==
    /\ req[r].pc = "write" /\ req[r].op = "delete"
    /\ LET f == req[r]
           res == SqlDelete(table, f.rowId)
       IN  /\ table' = res.tbl
           /\ req' = [q \in Slots |->
                        IF q = r
                        THEN Close(Respond(f, IF res.changes = 0 THEN 404 ELSE 200))
                        ELSE IF res.changes # 0 /\ LosesRow(req[q], f.rowId)
                        THEN [req[q] EXCEPT !.vanished = TRUE]
                        ELSE req[q]]
           /\ removed' = IF res.changes = 0 THEN removed ELSE removed \cup {f.rowId}
    /\ lastCreated' = <<>>
    /\ UNCHANGED issued
    /\ UNCHANGED <<sessions, minted, users, schema>>
    /\ UNCHANGED served

(***************************************************************************)
(* A store operation fails (the database cannot be opened or read, the     *)
(* disk is full): the awaited promise rejects and the handler's catch      *)
(* answers 500; finally closes the handle.                                 *)
(***************************************************************************)
StoreFail(r) ==
    /\ Busy(r) /\ req[r].pc # "lost"
    /\ req' = [req EXCEPT ![r] = Close(Fail(req[r], 500, FailedTo))]
    /\ Completes
    /\ UNCHANGED <<sessions, minted>>
    /\ Unchanged_db
    /\ UNCHANGED served

(***************************************************************************)
(* The database file cannot be opened.  openDb (lines 17-19) constructs    *)
(* the handle outside the handler's try block and passes no callback, so   *)
(* the failure is not the rejection of an awaited promise: it is emitted   *)
(* as an 'error' event on the handle, where nothing listens, and the       *)
(* process ends.  The request and every other request in flight are never  *)
(* answered, the session map is gone, and no request is taken from then    *)
(* on: every slot is "lost".                                               *)
(***************************************************************************)
OpenFail(r) ==
    /\ req[r].pc \in {"login_query", "schema"}
    /\ req' = [q \in Slots |->
                 IF Busy(q) THEN [req[q] EXCEPT !.pc = "lost"]
                 ELSE [IdleFrame EXCEPT !.pc = "lost"]]
    /\ sessions' = <<>>
    /\ Completes
    /\ UNCHANGED minted
    /\ Unchanged_db
    /\ UNCHANGED served

(***************************************************************************)
(* The data a run starts from and the inputs clients send.                 *)
(***************************************************************************)
\* the administrator ensureUsersTable seeds (lines 139-147) and two clerks
SeededAdmin ==
    [id |-> 1, username |-> <<"TODO">>, password |-> <<"1234">>,
     first_name |-> <<"TODO">>, last_name |-> EmptyStr, role |-> Admin,
     dept |-> <<"DZIAL">>]
Anna ==
    [id |-> 2, username |-> <<"anna">>, password |-> <<"pw">>,
     first_name |-> <<"Anna">>, last_name |-> <<"Nowak">>, role |-> <<"user">>,
     dept |-> <<"QA">>]
Jan ==
    [id |-> 3, username |-> <<"jan">>, password |-> <<"pw2">>,
     first_name |-> <<"Jan">>, last_name |-> <<"Kot">>, role |-> <<"user">>,
     dept |-> EmptyStr]

Directory == <<SeededAdmin, Anna, Jan>>

Column(name, type, notnull, pk) ==
    [name |-> name, type |-> type, notnull |-> notnull, dflt_value |-> NULL, pk |-> pk]

\* a claims table with every reserved column, named in lower case
ClaimsSchema ==
    << Column("id", "INTEGER", 0, 1),
       Column("claim_number", "TEXT", 0, 0),
       Column("data_zgloszenia", "TEXT", 0, 0),
       Column("status", "TEXT", 1, 0),
       Column("utworzono", "TEXT", 0, 0),
       Column("zglaszajacy", "TEXT", 0, 0),
       Column("dept", "TEXT", 0, 0),
       Column("opis", "TEXT", 0, 0) >>

\* 2026-06-01 10:00 UTC
Noon2026 ==
    [getFullYear |-> 2026,
     iso |-> <<"2", "0", "2", "6", "-", "0", "6", "-", "0", "1", "T",
               "1", "0", ":", "0", "0", ":", "0", "0", ".", "0", "0", "0", "Z">>]

\* 2026-12-31 23:30 UTC, which is 2027-01-01 00:30 on a server at UTC+1
NewYear2027 ==
    [getFullYear |-> 2027,
     iso |-> <<"2", "0", "2", "6", "-", "1", "2", "-", "3", "1", "T",
               "2", "3", ":", "3", "0", ":", "0", "0", ".", "0", "0", "0", "Z">>]

Bearer(token) == BearerPrefix \o token

\* Authorization headers: each token the server can mint, the tokens it has
\* handed out, a token it never minted, "Bearer " with nothing after it,
\* another scheme, no header
GoodHeaders == {Bearer(t) : t \in TokenPool}
KnownHeaders == {Bearer(t) : t \in minted}
BadHeaders == {Bearer(<<"zz">>), BearerPrefix, <<"B", "a", "s", "i", "c", Space, "t", "1">>, <<>>}

\* row id path segments
Segments == {<<Digits[i + 1]>> : i \in 1..MaxRowId}

Closed == <<"Closed">>
JanKot == <<"Jan", Space, "Kot">>
Number001 == ClaimPrefix(2026) \o <<"0", "0", "1">>

\* request bodies
EmptyBody == NoBody
StatusBody == [status |-> Closed]
ReporterBody == [zglaszajacy |-> JanKot]
NumberBody == [claim_number |-> Number001]
ReservedBody == [status |-> Closed, zglaszajacy |-> JanKot, claim_number |-> Number001,
                 opis |-> <<"x">>]

(***************************************************************************)
(* The server: every request a client may send, and every step of a        *)
(* handler in flight.                                                      *)
(***************************************************************************)
InitWith(userRows, schemaRows, tbl) ==
    /\ served = 0
    /\ sessions = <<>>
    /\ minted = {}
    /\ users = userRows
    /\ schema = schemaRows
    /\ table = tbl
    /\ req = [r \in Slots |-> IdleFrame]
    /\ lastCreated = <<>>
    /\ issued = <<>>
    /\ removed = {}

\* a handler in flight takes its next step
StepLogin(r) == LoginQuery(r)

StepRead(r) ==
    \/ SchemaRespond(r)
    \/ ListLoadSchema(r)
    \/ ListSelect(r)
    \/ ListEnrich(r)

StepCreate(r, times) ==
    \/ \E now \in times : CreateLoadSchema(r, now)
    \/ CreateScan(r)
    \/ CreateInsert(r)
    \/ CreateReread(r)

StepWrite(r) ==
    \/ UpdateLoadSchema(r)
    \/ UpdateAccess(r)
    \/ UpdateWrite(r)
    \/ UpdateReread(r)
    \/ DeleteLoadSchema(r)
    \/ DeleteAccess(r)
    \/ DeleteWrite(r)

\* a request arrives: the session routes
ReceiveAuth(r, creds, headers) ==
    \/ \E c \in creds : ReceiveLogin(r, c[1], c[2])
    \/ \E h \in headers : ReceiveLogout(r, h)
    \/ \E h \in headers : ReceiveMe(r, h)

\* a request arrives: the claims routes
ReceiveClaims(r, headers, segments, createBodies, updateBodies) ==
    \/ \E h \in headers, op \in {"schema", "list"} : ReceiveRead(r, op, h, NoBody)
    \/ \E h \in headers, b \in createBodies : ReceiveRead(r, "create", h, b)
    \/ \E h \in headers, g \in segments, b \in updateBodies : ReceiveWrite(r, "update", h, g, b)
    \/ \E h \in headers, g \in segments : ReceiveWrite(r, "delete", h, g, NoBody)

AdminCred == <<SeededAdmin.username, SeededAdmin.password>>
AnnaCred == <<Anna.username, Anna.password>>
JanCred == <<Jan.username, Jan.password>>

(***************************************************************************)
(* Spec: writers in flight together.  An administrator and a clerk log in  *)
(* and create, update and delete claims with the tokens they were given;   *)
(* up to two requests overlap.                                             *)
(***************************************************************************)
\* the table a run starts with: a claim Anna filed in 2026, before this start
FiledByAnna ==
    [c \in StoredColumns(ClaimsSchema) |->
        CASE c = "claim_number" -> Number001
          [] c = "data_zgloszenia" -> formatDateOnly(Noon2026)
          [] c = "status" -> Nowe
          [] c = "utworzono" -> formatDateTime(Noon2026)
          [] c = "zglaszajacy" -> buildFullName(Anna)
          [] c = "dept" -> Anna.dept
          [] OTHER -> NULL]

SeededTable == [i \in {1} |-> FiledByAnna]

Init == InitWith(Directory, ClaimsSchema, SeededTable)

Next ==
    \E r \in Slots :
        \/ \E c \in {AdminCred, AnnaCred} : ReceiveLogin(r, c[1], c[2])
        \/ \E h \in KnownHeaders : ReceiveRead(r, "create", h, ReservedBody)
        \/ \E h \in KnownHeaders, g \in Segments, b \in {ReporterBody, NumberBody} :
               ReceiveWrite(r, "update", h, g, b)
        \/ \E h \in KnownHeaders, g \in Segments : ReceiveWrite(r, "delete", h, g, NoBody)
        \/ StepLogin(r)
        \/ StepCreate(r, {Noon2026})
        \/ StepWrite(r)

Spec == Init /\ [][Next]_vars

(***************************************************************************)
(* SpecSeq: one request at a time, each answered before the next arrives;  *)
(* the administrator and two clerks, every claims route, two clock         *)
(* readings.                                                               *)
(***************************************************************************)
Quiet == \A q \in Slots : ~Busy(q)

UnknownKeyBody == [bogus |-> <<"x">>]

InitSeq == \E tbl \in {<<>>, SeededTable} : InitWith(Directory, ClaimsSchema, tbl)

NextSeq ==
    \E r \in Slots :
        \/ /\ Quiet
           /\ \/ \E c \in {AdminCred, AnnaCred, JanCred} : ReceiveLogin(r, c[1], c[2])
              \/ ReceiveClaims(r, KnownHeaders, Segments, {EmptyBody, ReservedBody},
                               {StatusBody, ReporterBody, UnknownKeyBody})
        \/ StepLogin(r)
        \/ StepRead(r)
        \/ StepCreate(r, {Noon2026, NewYear2027})
        \/ StepWrite(r)

SpecSeq == InitSeq /\ [][NextSeq]_vars

(***************************************************************************)
(* SpecGate: the session routes and the gate in front of every other       *)
(* route; headers with and without a token the server minted; requests     *)
(* overlap.                                                                *)
(***************************************************************************)
WrongCred == <<Anna.username, <<"nope">>>>
BlankCred == <<<<Space>>, <<"pw">>>>

NextGate ==
    \E r \in Slots :
        \/ ReceiveAuth(r, {AnnaCred, WrongCred, BlankCred}, GoodHeaders \cup BadHeaders)
        \/ ReceiveClaims(r, GoodHeaders \cup BadHeaders, {<<"1">>, <<"x">>},
                         {EmptyBody}, {StatusBody})
        \/ StepLogin(r)
        \/ StepRead(r)
        \/ StepCreate(r, {Noon2026})
        \/ StepWrite(r)

SpecGate == Init /\ [][NextGate]_vars

(***************************************************************************)
(* SpecCase: creates, one at a time, against a claims table whose columns  *)
(* are named in lower case or in mixed case.                               *)
(***************************************************************************)
MixedCaseSchema ==
    << Column("id", "INTEGER", 0, 1),
       Column("Claim_Number", "TEXT", 0, 0),
       Column("Data_Zgloszenia", "TEXT", 0, 0),
       Column("Status", "TEXT", 0, 0),
       Column("Utworzono", "TEXT", 0, 0),
       Column("Zglaszajacy", "TEXT", 0, 0),
       Column("Dzial", "TEXT", 0, 0),
       Column("opis", "TEXT", 0, 0) >>

MixedCaseBody == [Status |-> Closed, Zglaszajacy |-> JanKot, opis |-> <<"x">>]

InitCase ==
    \E schemaRows \in {ClaimsSchema, MixedCaseSchema} :
        InitWith(Directory, schemaRows, <<>>)

NextCase ==
    \E r \in Slots :
        \/ /\ Quiet
           /\ \/ \E c \in {AdminCred, AnnaCred} : ReceiveLogin(r, c[1], c[2])
              \/ \E h \in GoodHeaders, b \in {EmptyBody, ReservedBody, MixedCaseBody} :
                     ReceiveRead(r, "create", h, b)
        \/ StepLogin(r)
        \/ StepCreate(r, {Noon2026, NewYear2027})

SpecCase == InitCase /\ [][NextCase]_vars

(***************************************************************************)
(* SpecCreate: creates, one at a time, against a table with every reserved *)
(* column, a table with required columns the server does not fill, and a   *)
(* table with no reserved column at all.                                   *)
(***************************************************************************)
\* status is required and server-filled; opis and kwota are required and the
\* client's to fill; priorytet is NOT NULL with a default
RequiredSchema ==
    << Column("id", "INTEGER", 1, 1),
       Column("status", "TEXT", 1, 0),
       Column("zglaszajacy", "TEXT", 0, 0),
       Column("opis", "TEXT", 1, 0),
       Column("kwota", "TEXT", 1, 0),
       [Column("priorytet", "TEXT", 1, 0) EXCEPT !.dflt_value = <<"n">>] >>

PlainSchema ==
    << Column("id", "INTEGER", 0, 1),
       Column("opis", "TEXT", 0, 0) >>

OpisBody == [opis |-> <<"x">>]
FullBody == [opis |-> <<"x">>, kwota |-> <<"5">>]
FullReservedBody == [opis |-> <<"x">>, kwota |-> <<"5">>, status |-> Closed]
NullOpisBody == [opis |-> NULL, kwota |-> <<"5">>]

InitCreate ==
    \E schemaRows \in {ClaimsSchema, RequiredSchema, PlainSchema} :
        InitWith(Directory, schemaRows, <<>>)

NextCreate ==
    \E r \in Slots :
        \/ /\ Quiet
           /\ \/ ReceiveLogin(r, AnnaCred[1], AnnaCred[2])
              \/ \E h \in KnownHeaders,
                    b \in {EmptyBody, OpisBody, FullBody, FullReservedBody, NullOpisBody} :
                     ReceiveRead(r, "create", h, b)
        \/ StepLogin(r)
        \/ StepCreate(r, {Noon2026})

SpecCreate == InitCreate /\ [][NextCreate]_vars

(***************************************************************************)
(* SpecEdit: one request at a time against a table of two claims Anna      *)
(* filed; she and the administrator list, create, update and delete.       *)
(***************************************************************************)
Number002 == ClaimPrefix(2026) \o <<"0", "0", "2">>

TwoRowTable ==
    [i \in {1, 2} |->
        IF i = 1 THEN FiledByAnna ELSE [FiledByAnna EXCEPT !["claim_number"] = Number002]]

\* update bodies: a listed column with an unknown key, and the identity column
MixedBody == [status |-> Closed, bogus |-> <<"x">>]
IdBody == [id |-> <<"1">>]

InitEdit == InitWith(Directory, ClaimsSchema, TwoRowTable)

NextEdit ==
    \E r \in Slots :
        \/ /\ Quiet
           /\ \/ \E c \in {AdminCred, AnnaCred} : ReceiveLogin(r, c[1], c[2])
              \/ ReceiveClaims(r, KnownHeaders, Segments, {EmptyBody},
                               {StatusBody, MixedBody, UnknownKeyBody, EmptyBody, IdBody})
        \/ StepLogin(r)
        \/ StepRead(r)
        \/ StepCreate(r, {Noon2026})
        \/ StepWrite(r)

SpecEdit == InitEdit /\ [][NextEdit]_vars

(***************************************************************************)
(* SpecLogin: the session routes alone, requests overlapping; credentials  *)
(* that match, that miss by the username or by the password, and that are  *)
(* missing or blank.                                                       *)
(***************************************************************************)
WrongUserCred == <<<<"nobody">>, Anna.password>>
BlankPasswordCred == <<Anna.username, <<Space>>>>
MissingCred == <<NULL, NULL>>
PaddedCred == <<<<Space>> \o Anna.username \o <<Space>>, Anna.password>>

NextLogin ==
    \E r \in Slots :
        \/ ReceiveAuth(r, {AdminCred, AnnaCred, PaddedCred, WrongCred, WrongUserCred,
                           BlankCred, BlankPasswordCred, MissingCred}, GoodHeaders)
        \/ StepLogin(r)

SpecLogin == Init /\ [][NextLogin]_vars

(***************************************************************************)
(* SpecPath: updates and deletes, overlapping, whose row id path segment   *)
(* is an integer, an integer written with a decimal point, a fraction, or  *)
(* no number.                                                              *)
(***************************************************************************)
PathSegments ==
    {<<"1">>, <<"1", ".", "0">>, <<"1", ".", "5">>, <<".">>, <<"x">>, <<"1", "x">>}

NextPath ==
    \E r \in Slots :
        \/ \E c \in {AdminCred, AnnaCred} : ReceiveLogin(r, c[1], c[2])
        \/ \E h \in KnownHeaders, g \in PathSegments :
               \/ ReceiveWrite(r, "update", h, g, StatusBody)
               \/ ReceiveWrite(r, "delete", h, g, NoBody)
        \/ StepLogin(r)
        \/ StepWrite(r)

SpecPath == Init /\ [][NextPath]_vars

(***************************************************************************)
(* SpecOpen: a claims table without a reporter column, or with one; two    *)
(* clerks list, update and delete its rows, requests overlapping.          *)
(***************************************************************************)
PlainTable == [i \in {1, 2} |-> [opis |-> <<"a">>]]

\* the table without a reporter column, and beside it the table that has one
InitOpen ==
    \/ InitWith(Directory, PlainSchema, PlainTable)
    \/ InitWith(Directory, ClaimsSchema, SeededTable)

NextOpen ==
    \E r \in Slots :
        \/ \E c \in {AnnaCred, JanCred} : ReceiveLogin(r, c[1], c[2])
        \/ \E h \in KnownHeaders : ReceiveRead(r, "list", h, NoBody)
        \/ \E h \in KnownHeaders, g \in Segments :
               \/ ReceiveWrite(r, "update", h, g, OpisBody)
               \/ ReceiveWrite(r, "delete", h, g, NoBody)
        \/ StepLogin(r)
        \/ ListLoadSchema(r)
        \/ ListSelect(r)
        \/ ListEnrich(r)
        \/ StepWrite(r)

SpecOpen == InitOpen /\ [][NextOpen]_vars

(***************************************************************************)
(* SpecDept: one request at a time against a table with one department     *)
(* column (dept) or with two (dept and dzial); the administrator and a     *)
(* clerk create, update the department cells and list.                     *)
(***************************************************************************)
TwoDeptSchema ==
    << Column("id", "INTEGER", 0, 1),
       Column("zglaszajacy", "TEXT", 0, 0),
       Column("dept", "TEXT", 0, 0),
       Column("dzial", "TEXT", 0, 0),
       Column("opis", "TEXT", 0, 0) >>

\* update bodies: the department cells emptied, set, and one emptied with the
\* other set; the reporter set to a name no user has
NoDeptBody == [dept |-> EmptyStr]
DzialBody == [dept |-> EmptyStr, dzial |-> <<"HR">>]
NullDeptBody == [dept |-> NULL, dzial |-> <<"HR">>]
StrangerBody == [dept |-> NULL, zglaszajacy |-> <<"Ewa">>]

InitDept ==
    \E schemaRows \in {ClaimsSchema, TwoDeptSchema} :
        InitWith(Directory, schemaRows, <<>>)

NextDept ==
    \E r \in Slots :
        \/ /\ Quiet
           /\ \/ \E c \in {AdminCred, AnnaCred} : ReceiveLogin(r, c[1], c[2])
              \/ \E h \in KnownHeaders : ReceiveRead(r, "list", h, NoBody)
              \/ \E h \in KnownHeaders : ReceiveRead(r, "create", h, OpisBody)
              \/ \E h \in KnownHeaders,
                    b \in {NoDeptBody, DzialBody, NullDeptBody, StrangerBody} :
                     ReceiveWrite(r, "update", h, <<"1">>, b)
        \/ StepLogin(r)
        \/ ListLoadSchema(r)
        \/ ListSelect(r)
        \/ ListEnrich(r)
        \/ StepCreate(r, {Noon2026})
        \/ UpdateLoadSchema(r)
        \/ UpdateAccess(r)
        \/ UpdateWrite(r)
        \/ UpdateReread(r)

SpecDept == InitDept /\ [][NextDept]_vars

(***************************************************************************)
(* SpecNumber: the claim number generator applied, by creates one at a     *)
(* time in 2026 and in 2027, to tables of up to two rows whose claim       *)
(* numbers are drawn from a pool.                                          *)
(***************************************************************************)
\* claim_number cells: none, numbers of 2026 with suffix 001, 099, 999 and
\* 1000, with no suffix and with a suffix that is no number, a number of
\* 2027, the prefix in lower case, the prefix inside the value
NumberPool ==
    { NULL,
      Number001,
      ClaimPrefix(2026) \o <<"0", "9", "9">>,
      ClaimPrefix(2026) \o <<"9", "9", "9">>,
      ClaimPrefix(2026) \o <<"1", "0", "0", "0">>,
      ClaimPrefix(2026),
      ClaimPrefix(2026) \o <<"7", "x">>,
      ClaimPrefix(2027) \o <<"0", "0", "5">>,
      <<"n", "z", "g", "-">> \o ToDigits(2026) \o <<"-", "0", "0", "7">>,
      <<"X">> \o ClaimPrefix(2026) \o <<"0", "0", "8">> }

Numbered(v) == [FiledByAnna EXCEPT !["claim_number"] = v]

InitNumber ==
    \/ InitWith(Directory, ClaimsSchema, <<>>)
    \/ \E v \in NumberPool : InitWith(Directory, ClaimsSchema, [i \in {1} |-> Numbered(v)])
    \/ \E v, w \in NumberPool :
           InitWith(Directory, ClaimsSchema,
                    [i \in {1, 2} |-> IF i = 1 THEN Numbered(v) ELSE Numbered(w)])

NextNumber ==
    \E r \in Slots :
        \/ /\ Quiet
           /\ \/ ReceiveLogin(r, AnnaCred[1], AnnaCred[2])
              \/ \E h \in KnownHeaders : ReceiveRead(r, "create", h, EmptyBody)
        \/ StepLogin(r)
        \/ StepCreate(r, {Noon2026, NewYear2027})

SpecNumber == InitNumber /\ [][NextNumber]_vars

(***************************************************************************)
(* SpecFail: requests overlapping on every route while the store may fail: *)
(* any awaited query or statement may be rejected, and the database file   *)
(* may fail to open.                                                       *)
(***************************************************************************)
NextFail ==
    \E r \in Slots :
        \/ ReceiveAuth(r, {AnnaCred, JanCred, BlankCred}, KnownHeaders \cup {<<>>})
        \/ ReceiveClaims(r, KnownHeaders \cup {<<>>}, {<<"1">>, <<"x">>},
                         {EmptyBody}, {StatusBody, EmptyBody})
        \/ StepLogin(r)
        \/ StepRead(r)
        \/ StepCreate(r, {Noon2026})
        \/ StepWrite(r)
        \/ StoreFail(r)
        \/ OpenFail(r)

SpecFail == Init /\ [][NextFail]_vars

(***************************************************************************)
(* SpecRace: deletes in flight together, by the administrator and by the   *)
(* clerk who filed both rows of the table; nothing is created.             *)
(***************************************************************************)
NextRace ==
    \E r \in Slots :
        \/ \E c \in {AdminCred, AnnaCred} : ReceiveLogin(r, c[1], c[2])
        \/ \E h \in KnownHeaders, g \in {<<"1">>, <<"2">>} :
               ReceiveWrite(r, "delete", h, g, NoBody)
        \/ StepLogin(r)
        \/ DeleteLoadSchema(r)
        \/ DeleteAccess(r)
        \/ DeleteWrite(r)

SpecRace == InitEdit /\ [][NextRace]_vars

(***************************************************************************)
(* SpecTwin: one request at a time; two clerk accounts whose first and     *)
(* last names are the same and whose departments differ create, list,      *)
(* update and delete claims.                                               *)
(***************************************************************************)
JanTwin ==
    [id |-> 4, username |-> <<"jkot">>, password |-> <<"pw3">>,
     first_name |-> <<"Jan">>, last_name |-> <<"Kot">>, role |-> <<"user">>,
     dept |-> <<"HR">>]

TwinCred == <<JanTwin.username, JanTwin.password>>

InitTwin == InitWith(<<SeededAdmin, Jan, JanTwin>>, ClaimsSchema, <<>>)

NextTwin ==
    \E r \in Slots :
        \/ /\ Quiet
           /\ \/ \E c \in {JanCred, TwinCred} : ReceiveLogin(r, c[1], c[2])
              \/ ReceiveClaims(r, KnownHeaders, Segments, {EmptyBody}, {StatusBody})
        \/ StepLogin(r)
        \/ StepRead(r)
        \/ StepCreate(r, {Noon2026})
        \/ StepWrite(r)

SpecTwin == InitTwin /\ [][NextTwin]_vars

(***************************************************************************)
(* Properties.                                                             *)
(***************************************************************************)
GatedRoutes == {"logout", "me", "schema", "list", "create", "update", "delete"}

\* the reporter cell of a stored row; NULL when the table has no such column
ReporterOf(row) == Get(row, findColumnName(schema, "zglaszajacy"))

\* the caller of frame f is no administrator
NonAdmin(f) == f.user.role # Admin

\* slot r takes a request in this step
Arriving(r) == FreeSlot(r) /\ served' = served + 1

\* C1: a request to logout, me, schema, list, create, update or delete whose
\* bearer token is absent, empty or no key of the session map when the gate
\* runs is answered 401 at once: no store handle is opened, nothing is
\* returned, and the session map and the store are as before.
GateRejectsUnknownToken ==
    [][\A r \in Slots :
          (/\ Arriving(r)
           /\ req'[r].op \in GatedRoutes
           /\ \/ req'[r].token \in {NULL, EmptyStr}
              \/ req'[r].token \notin DOMAIN sessions)
          => /\ req'[r].pc = "done"
             /\ req'[r].status = 401
             /\ req'[r].db = "none"
             /\ req'[r].outRows = {}
             /\ req'[r].outUser = NoUser
             /\ req'[r].user = NoUser
             /\ UNCHANGED <<sessions, users, schema, table>>]_vars

\* a delete sent with a token that was minted and has since been logged out
\* stands answered 401
RejectedAfterLogout ==
    \E r \in Slots :
        /\ req[r].op = "delete" /\ req[r].pc = "done" /\ req[r].status = 401
        /\ req[r].token \in minted \ DOMAIN sessions

\* an update or delete that has not reached its statement names a row that
\* exists and was reported by somebody else
NamesForeignRow(f) ==
    /\ f.op \in {"update", "delete"}
    /\ f.pc \in {"schema", "check"}
    /\ NonAdmin(f)
    /\ findColumnName(schema, "zglaszajacy") # NoName
    /\ f.rowId \in DOMAIN table
    /\ OrEmpty(ReporterOf(table[f.rowId])) # f.user.fullName

\* C3: with one request at a time, an update or delete by a caller who is no
\* administrator, for an existing row whose reporter differs from the
\* caller's full name, leaves every row as it was at every step and is
\* answered 403.
ForeignRowIsForbidden ==
    [][\A r \in Slots :
          NamesForeignRow(req[r])
          => /\ table' = table
             /\ req'[r].pc \in {"check", "done"}
             /\ req'[r].pc = "done" => req'[r].status = 403]_vars

\* an update of somebody else's row stands answered 403, the row in place
ForbiddenUpdateAnswered ==
    \E r \in Slots :
        /\ req[r].op = "update" /\ req[r].pc = "done" /\ req[r].status = 403
        /\ NonAdmin(req[r])
        /\ req[r].rowId \in DOMAIN table
        /\ OrEmpty(ReporterOf(table[req[r].rowId])) # req[r].user.fullName

\* C4: a list answered to a caller who is no administrator holds no row whose
\* reporter differs from the caller's full name; a list answered to an
\* administrator holds every row of the table, each under its rowid and with
\* its stored cells (the department cell is the one the response may fill in).
ListShowsOwnRowsOrAll ==
    \A r \in Slots :
        (req[r].op = "list" /\ req[r].pc = "done" /\ req[r].status = 200)
        => IF NonAdmin(req[r])
           THEN \A row \in req[r].outRows :
                    /\ row.rowid \in DOMAIN table
                    /\ ReporterOf(row.cols) = req[r].user.fullName
                    /\ ReporterOf(table[row.rowid]) = req[r].user.fullName
           ELSE /\ {row.rowid : row \in req[r].outRows} = DOMAIN table
                /\ Cardinality(req[r].outRows) = Cardinality(DOMAIN table)
                /\ \A row \in req[r].outRows :
                       \A c \in DOMAIN table[row.rowid] \ {"dept"} :
                           row.cols[c] = table[row.rowid][c]

\* a clerk's list is answered with a row of theirs while the table also holds
\* a row somebody else reported
ListLeavesOutForeignRow ==
    \E r \in Slots :
        /\ req[r].op = "list" /\ req[r].pc = "done" /\ req[r].status = 200
        /\ NonAdmin(req[r])
        /\ req[r].outRows # {}
        /\ \E id \in DOMAIN table : ReporterOf(table[id]) # req[r].user.fullName

\* the statement of frame f changes the table in this step
StatementChanges(r) == req[r].pc = "write" /\ table' # table

\* C2: whatever requests overlap, an UPDATE or DELETE statement run for a
\* caller who is no administrator changes or removes only a row whose
\* reporter, as the statement executes, is the caller's full name.
WritesOwnRowAtStatement ==
    [][\A r \in Slots :
          (StatementChanges(r) /\ NonAdmin(req[r])
               /\ findColumnName(schema, "zglaszajacy") # NoName)
          => /\ req[r].rowId \in DOMAIN table
             /\ OrEmpty(ReporterOf(table[req[r].rowId])) = req[r].user.fullName]_vars

\* C5: no step of a request by a caller who is no administrator changes the
\* reporter of a row, and a row such a request inserts carries the caller's
\* full name as its reporter.
ReporterSetByServerOnly ==
    [][\A r \in Slots :
          (Busy(r) /\ NonAdmin(req[r]) /\ req'[r] # req[r])
          => \A id \in DOMAIN table' :
                 IF id \in DOMAIN table
                 THEN ReporterOf(table'[id]) = ReporterOf(table[id])
                 ELSE ReporterOf(table'[id]) = req[r].user.fullName]_vars

\* C6: no two rows of the table carry the same claim number.
ClaimNumbersDistinct ==
    \A i, j \in DOMAIN table :
        (i # j /\ table[i]["claim_number"] # NULL)
        => table[i]["claim_number"] # table[j]["claim_number"]

\* C7: nothing at the INSERT looks at the numbers in the table: a create whose
\* number, computed at its scan, is in the table by the time it inserts
\* still inserts a new row under that number and leaves the others alone.
InsertKeepsScannedNumber ==
    [][\A r \in Slots :
          (/\ req[r].op = "create" /\ req[r].pc = "insert" /\ req'[r] # req[r]
           /\ req[r].num # NULL
           /\ \E id \in DOMAIN table : table[id]["claim_number"] = req[r].num)
          => /\ req'[r].pc = "reread"
             /\ req'[r].lastID \in DOMAIN table' \ DOMAIN table
             /\ table'[req'[r].lastID]["claim_number"] = req[r].num
             /\ \A id \in DOMAIN table : table'[id] = table[id]]_vars

\* two creates of the same year are answered 201, both scanned before either
\* inserted, and their two rows carry the one number
DuplicateAfterRace ==
    \E r, q \in Slots :
        /\ r # q
        /\ req[r].op = "create" /\ req[r].pc = "done" /\ req[r].status = 201
        /\ req[q].op = "create" /\ req[q].pc = "done" /\ req[q].status = 201
        /\ req[q].raced
        /\ req[r].num # NULL /\ req[r].num = req[q].num
        /\ req[r].lastID # req[q].lastID
        /\ {req[r].lastID, req[q].lastID} \subseteq DOMAIN table
        /\ table[req[r].lastID]["claim_number"] = req[r].num
        /\ table[req[q].lastID]["claim_number"] = req[r].num

\* the year prefix and the numeric suffix of a claim number NZG-YYYY-NNN
NumberPrefix(number) == SliceTo(number, Len(ClaimPrefix(Noon2026.getFullYear)))
NumberSuffix(number) ==
    DigitsToNat(SliceFrom(number, Len(ClaimPrefix(Noon2026.getFullYear))))

\* C8: when two creates of the same year succeed one after the other, the
\* second starting after the first was answered and no request in between,
\* the suffix of the second's number is the suffix of the first's plus 1.
SequentialCreatesDifferByOne ==
    (Len(lastCreated) = 2 /\ NumberPrefix(lastCreated[1]) = NumberPrefix(lastCreated[2]))
    => NumberSuffix(lastCreated[2]) = NumberSuffix(lastCreated[1]) + 1

\* two creates of one year have been answered back to back
TwoCreatesBackToBack ==
    /\ Len(lastCreated) = 2
    /\ NumberPrefix(lastCreated[1]) = NumberPrefix(lastCreated[2])
    /\ \E r \in Slots : req[r].op = "create" /\ req[r].pc = "done" /\ req[r].status = 201

\* C9: the suffix a create inserts is larger than the suffix of every number
\* creates have inserted before in that year, rows deleted since included.
NumbersGrowWithinYear ==
    [][\A r \in Slots :
          (/\ req[r].op = "create" /\ req[r].pc = "insert" /\ req'[r].pc = "reread"
           /\ req[r].num # NULL
           /\ req[r].now.getFullYear \in DOMAIN issued)
          => NumberSuffix(req[r].num) > issued[req[r].now.getFullYear]]_vars

\* what the server computes for the column found under a reserved name
ServerValue(lowerName, f) ==
    CASE lowerName = "claim_number" -> generateClaimNumber(table, f.now.getFullYear)
      [] lowerName = "data_zgloszenia" -> formatDateOnly(f.now)
      [] lowerName = "status" -> Nowe
      [] lowerName = "utworzono" -> formatDateTime(f.now)
      [] lowerName = "zglaszajacy" -> f.user.fullName
      [] OTHER -> OrEmpty(f.user.dept)

\* C10: a create that succeeds stores, in every reserved column the schema
\* has under whatever casing, the value the server computes: the generated
\* number, the date, "Nowe", the timestamp, the caller's full name and
\* department; the row's identity is the rowid the store assigns.
ReservedColumnsServerComputed ==
    [][\A r \in Slots :
          (req[r].op = "create" /\ req[r].pc = "insert" /\ req'[r].pc = "reread")
          => /\ req'[r].lastID = NextRowId(table)
             /\ \A lowerName \in {"claim_number", "data_zgloszenia", "status",
                                  "utworzono", "zglaszajacy", "dept", "dzial"} :
                    findColumnName(schema, lowerName) # NoName
                    => table'[req'[r].lastID][findColumnName(schema, lowerName)]
                           = ServerValue(lowerName, req[r])]_vars

\* the columns the server fills on a create, and the body keys it accepts
ServerFilled(f) == DOMAIN defaultEntries(schema, f.user, f.now, f.num)
Accepted(f) == DOMAIN allowedEntries(f.body, ColumnSet(schema))

\* the columns that are NOT NULL, have no default, are no primary key, and
\* are neither server-filled nor accepted from the body
Uncovered(f) ==
    {schema[i].name : i \in {j \in 1..Len(schema) :
        /\ schema[j].notnull = 1 /\ schema[j].dflt_value = NULL /\ schema[j].pk = 0
        /\ schema[j].name \notin ServerFilled(f) \cup Accepted(f)}}

\* the create in slot r passes from its reads to its decision in this step
CreateDecides(r) ==
    /\ req[r].op = "create" /\ req[r].pc \in {"schema", "scan"}
    /\ req'[r].pc \in {"insert", "done"}

\* the answer 400 MissingRequiredFields
AnsweredMissing(f) ==
    f.pc = "done" /\ f.status = 400 /\ f.error = MissingRequiredFields

\* C11 as stated: a create is answered 400 MissingRequiredFields exactly when
\* some required column is neither server-filled nor accepted from the body,
\* the answer names exactly those columns and no row is inserted; a create
\* with an empty body whose required columns are all server-filled goes on
\* to its INSERT and is answered 201.
EmptyBodyCreateSucceeds ==
    [][\A r \in Slots :
          /\ CreateDecides(r)
             => /\ AnsweredMissing(req'[r]) <=> Uncovered(req[r]) # {}
                /\ Uncovered(req[r]) # {}
                   => req'[r].missing = Uncovered(req[r]) /\ table' = table
                /\ (Uncovered(req[r]) = {} /\ req[r].body = EmptyBody)
                   => req'[r].pc = "insert"
          /\ (req[r].op = "create" /\ req[r].pc = "insert" /\ req[r].body = EmptyBody
                 /\ req'[r] # req[r])
             => req'[r].pc = "reread"
          /\ (req[r].op = "create" /\ req[r].pc = "reread" /\ req'[r] # req[r])
             => req'[r].pc = "done" /\ req'[r].status = 201]_vars

\* C11, amended: as above, but the create with an empty body goes on to its
\* INSERT only when the server fills at least one column; when nothing is
\* uncovered and nothing is filled or accepted the answer is 400 "No valid
\* fields provided." and no row is inserted.
CreateRejectedWhenUncovered ==
    [][\A r \in Slots :
          /\ CreateDecides(r)
             => /\ AnsweredMissing(req'[r]) <=> Uncovered(req[r]) # {}
                /\ Uncovered(req[r]) # {}
                   => req'[r].missing = Uncovered(req[r]) /\ table' = table
                /\ (Uncovered(req[r]) = {}
                       /\ ServerFilled(req[r]) \cup Accepted(req[r]) # {})
                   => req'[r].pc = "insert"
                /\ (Uncovered(req[r]) = {}
                       /\ ServerFilled(req[r]) \cup Accepted(req[r]) = {})
                   => /\ req'[r].pc = "done" /\ req'[r].status = 400
                      /\ req'[r].error = NoValidFields
                      /\ table' = table
          /\ (req[r].op = "create" /\ req[r].pc = "insert" /\ req[r].body = EmptyBody
                 /\ req'[r] # req[r])
             => req'[r].pc = "reread"
          /\ (req[r].op = "create" /\ req[r].pc = "reread" /\ req'[r] # req[r])
             => req'[r].pc = "done" /\ req'[r].status = 201]_vars

\* a create that sent opis and not kwota stands answered 400 naming kwota
\* alone, the table empty
MissingKwotaAnswered ==
    \E r \in Slots :
        /\ req[r].op = "create" /\ AnsweredMissing(req[r])
        /\ req[r].missing = {"kwota"}
        /\ schema = RequiredSchema
        /\ table = <<>>

\* the UPDATE of the request in slot r succeeds in this step
UpdateSucceeds(r) ==
    req[r].op = "update" /\ req[r].pc = "write" /\ req'[r].pc = "reread"

\* C12: a successful update of row R with a body listing the columns K
\* changes, in row R, only the columns of K the schema has; every other
\* column of R keeps its value, R keeps its rowid, and every other row is
\* as before.
UpdateChangesListedColumnsOnly ==
    [][\A r \in Slots :
          UpdateSucceeds(r)
          => /\ DOMAIN table' = DOMAIN table
             /\ req[r].rowId \in DOMAIN table
             /\ \A id \in DOMAIN table \ {req[r].rowId} : table'[id] = table[id]
             /\ \A c \in DOMAIN table[req[r].rowId] \ DOMAIN req[r].body :
                    table'[req[r].rowId][c] = table[req[r].rowId][c]]_vars

\* the update in slot r passes from its access check to its decision
UpdateDecides(r) ==
    /\ req[r].op = "update" /\ req[r].pc \in {"schema", "check"}
    /\ req'[r].pc \in {"write", "done"}

\* the caller of frame f may touch the row f names
HasAccess(f) ==
    \/ f.user.role = Admin
    \/ /\ f.rowId \in DOMAIN table
       /\ OrEmpty(ReporterOf(table[f.rowId])) = f.user.fullName

\* C13: in an update by a caller with access to the row, body keys that name
\* no schema column are dropped and cause no error: the UPDATE is issued when
\* some key names a schema column, and it writes the body's values for
\* those keys and adds no cell; when no key names a schema column the
\* answer is 400 "No editable fields provided." and the table is as before.
UnknownKeysDropped ==
    [][\A r \in Slots :
          /\ (UpdateDecides(r) /\ HasAccess(req[r]))
             => IF DOMAIN req[r].body \cap ColumnSet(schema) = {}
                THEN /\ req'[r].pc = "done" /\ req'[r].status = 400
                     /\ req'[r].error = NoEditableFields
                     /\ table' = table
                ELSE req'[r].pc = "write" /\ table' = table
          /\ (UpdateSucceeds(r) /\ RowidAlias(schema) \notin DOMAIN req[r].body)
             => /\ DOMAIN table'[req[r].rowId] = DOMAIN table[req[r].rowId]
                /\ \A c \in DOMAIN req[r].body \cap StoredColumns(schema) :
                       table'[req[r].rowId][c] = req[r].body[c]]_vars

\* a clerk's update whose body names status and an unknown key has passed
\* its checks and is about to run its UPDATE
MixedBodyAccepted ==
    \E r \in Slots :
        /\ req[r].op = "update" /\ req[r].pc = "write"
        /\ NonAdmin(req[r])
        /\ req[r].body = MixedBody

\* C14: an update or delete whose row another request deleted after its
\* access check passed and before its statement ran ends, when the statement
\* runs, with 404 and changes no row.
VanishedRowAnswered404 ==
    [][\A r \in Slots :
          (req[r].vanished /\ req[r].pc = "write" /\ req'[r].pc # "write")
          => /\ req'[r].pc = "done"
             /\ req'[r].status = 404
             /\ table' = table]_vars

\* C15: with one request at a time, a delete, by an administrator or not,
\* for a row id that identifies no row leaves the table as it is at every
\* step and is answered 404.
DeleteOfAbsentRowIs404 ==
    [][\A r \in Slots :
          (req[r].op = "delete" /\ Busy(r) /\ req[r].rowId \notin DOMAIN table)
          => /\ table' = table
             /\ req'[r].pc = "done" => req'[r].status = 404]_vars

\* an administrator's delete of a row id the table does not hold stands
\* answered 404, the table not empty
AbsentRowDeleteAnswered ==
    \E r \in Slots :
        /\ req[r].op = "delete" /\ req[r].pc = "done" /\ req[r].status = 404
        /\ req[r].user.role = Admin
        /\ req[r].rowId \notin DOMAIN table
        /\ DOMAIN table # {}

\* C16: a delete answered with success for row id r removes the row r and
\* no other and acknowledges rowId = r; from then until a create inserts a
\* row, no list holds a row with identity r.
DeletedRowStaysGone ==
    [][\A r \in Slots :
          /\ (req[r].op = "delete" /\ req[r].pc = "write" /\ req'[r].status = 200)
             => /\ req[r].rowId \in DOMAIN table
                /\ table' = Without(table, req[r].rowId)
                /\ req'[r].pc = "done"
                /\ req'[r].rowId = req[r].rowId
          /\ req'[r].op = "list"
             => \A row \in req'[r].outRows : row.rowid \notin removed']_vars

\* C17: a login whose username or password is missing, empty, or blank once
\* trimmed is answered 400 with no credential lookup and no new session: a
\* login that goes on to the lookup has a username and a password that are
\* not blank, and the arrival of a login leaves the session map alone.
BlankCredentialsRejected ==
    [][\A r \in Slots :
          (Arriving(r) /\ req'[r].op = "login")
          => /\ sessions' = sessions
             /\ \/ /\ req'[r].pc = "done" /\ req'[r].status = 400
                   /\ req'[r].error = CredentialsRequired
                \/ /\ req'[r].pc = "login_query"
                   /\ Trim(req'[r].username) # EmptyStr
                   /\ Trim(req'[r].password) # EmptyStr]_vars

\* the credential lookup of the login in slot r is answered in this step
LoginAnswered(r) == req[r].op = "login" /\ req[r].pc = "login_query" /\ req'[r].pc = "done"

\* the user rows whose username and password are those frame f carries
Matches(f) ==
    {i \in 1..Len(users) : users[i].username = f.username /\ users[i].password = f.password}

\* C18: a login whose username and password, neither empty, match no stored
\* user exactly is answered 401 "Invalid username or password.", the very
\* same answer whichever of the two is wrong, and the session map stays as
\* it was.
MismatchAnswered401 ==
    [][\A r \in Slots :
          (LoginAnswered(r) /\ Matches(req[r]) = {})
          => /\ req'[r] = Close(Fail([IdleFrame EXCEPT !.op = "login", !.db = "open"],
                                     401, InvalidCredentials))
             /\ sessions' = sessions
             /\ minted' = minted]_vars

\* a login stands answered 401 while somebody else's session exists
MismatchAnsweredBesideSession ==
    \E r \in Slots :
        /\ req[r].op = "login" /\ req[r].pc = "done" /\ req[r].status = 401
        /\ req[r].error = InvalidCredentials
        /\ DOMAIN sessions # {}

\* the snapshot a login stores for user row u
Snapshot(u) ==
    [id |-> u.id, username |-> u.username, first_name |-> u.first_name,
     last_name |-> u.last_name,
     fullName |-> Trim(OrEmpty(u.first_name) \o <<Space>> \o OrEmpty(u.last_name)),
     role |-> u.role, dept |-> u.dept]

\* C19: a login that succeeds adds one session, under a token the session
\* map did not hold, bound to the snapshot of the matched user (full name =
\* first name, a space, last name, trimmed) and returns that token and
\* snapshot; no session present is ever changed; and a request the gate lets
\* through carries exactly the snapshot stored under its token, which is
\* what me returns.
LoginAddsOneSession ==
    [][/\ \A r \in Slots :
             (LoginAnswered(r) /\ Matches(req[r]) # {})
             => /\ req'[r].status = 200
                /\ req'[r].outToken \notin DOMAIN sessions
                /\ DOMAIN sessions' = DOMAIN sessions \cup {req'[r].outToken}
                /\ \E i \in Matches(req[r]) :
                       /\ sessions'[req'[r].outToken] = Snapshot(users[i])
                       /\ req'[r].outUser = Snapshot(users[i])
       /\ \A t \in DOMAIN sessions \cap DOMAIN sessions' : sessions'[t] = sessions[t]
       /\ \A r \in Slots :
             (Arriving(r) /\ req'[r].op \in GatedRoutes /\ req'[r].status # 401)
             => /\ req'[r].token \in DOMAIN sessions
                /\ req'[r].user = sessions[req'[r].token]
                /\ req'[r].op = "me" => req'[r].outUser = sessions[req'[r].token]]_vars

\* the seeded administrator, whose last name is empty, and another user are
\* logged in, and me stands answered with the administrator's snapshot,
\* the full name without a trailing blank
MeReturnsTrimmedSnapshot ==
    \E r \in Slots :
        /\ req[r].op = "me" /\ req[r].pc = "done" /\ req[r].status = 200
        /\ req[r].outUser = Snapshot(SeededAdmin)
        /\ req[r].outUser.fullName = SeededAdmin.first_name
        /\ req[r].token \in DOMAIN sessions
        /\ Cardinality(DOMAIN sessions) = 2

\* C20: a logout answered 200 removes its own token from the session map
\* and leaves every other session, the same user's other sessions included,
\* as it was; a token that was issued and is no longer in the map never
\* comes back; and every request arriving with such a token, a second logout
\* included, is answered 401 by the gate.
LoggedOutTokenStaysRejected ==
    [][/\ \A r \in Slots :
             (Arriving(r) /\ req'[r].op = "logout" /\ req'[r].status = 200)
             => /\ req'[r].token \in DOMAIN sessions
                /\ DOMAIN sessions' = DOMAIN sessions \ {req'[r].token}
                /\ \A u \in DOMAIN sessions' : sessions'[u] = sessions[u]
       /\ \A t \in minted \ DOMAIN sessions : t \notin DOMAIN sessions'
       /\ \A r \in Slots :
             (/\ Arriving(r)
              /\ req'[r].op \in GatedRoutes
              /\ req'[r].token \in minted \ DOMAIN sessions)
             => req'[r].pc = "done" /\ req'[r].status = 401]_vars

\* a second logout with a token already logged out stands answered 401
\* while the same user's other session is still in the map
SecondLogoutRejected ==
    \E r \in Slots :
        /\ req[r].op = "logout" /\ req[r].pc = "done" /\ req[r].status = 401
        /\ req[r].token \in minted \ DOMAIN sessions
        /\ \E u \in DOMAIN sessions : sessions[u] = Snapshot(Anna)

\* C21: a session in the map stays in the map, bound to the same snapshot,
\* through every step of every request, the one exception being the logout
\* that arrives with the session's own token and is answered 200.
SessionLivesUntilOwnLogout ==
    [][\A t \in DOMAIN sessions :
          \/ t \in DOMAIN sessions' /\ sessions'[t] = sessions[t]
          \/ \E r \in Slots :
                 /\ Arriving(r)
                 /\ req'[r].op = "logout"
                 /\ req'[r].token = t
                 /\ req'[r].status = 200]_vars

\* a session is in the map after the other token issued was logged out and
\* while a delete admitted with the session's token stands answered
SessionOutlivesOtherLogout ==
    \E t \in DOMAIN sessions, r \in Slots :
        /\ minted \ DOMAIN sessions # {}
        /\ req[r].op = "delete" /\ req[r].pc = "done" /\ req[r].status \in {200, 404}
        /\ req[r].token = t

\* the update in slot r reads its row back and answers in this step
UpdateAnswers(r) ==
    req[r].op = "update" /\ req[r].pc = "reread" /\ req'[r].pc = "done"

\* C22: no update moves a row to another rowid, whatever columns of the
\* schema its body names, the identity column included: after a successful
\* UPDATE of row R the table holds the same rowids as before, R among them,
\* and the 200 answer carries row R as the table then holds it.
UpdateKeepsRowIdentity ==
    [][\A r \in Slots :
          /\ UpdateSucceeds(r)
             => /\ DOMAIN table' = DOMAIN table
                /\ req[r].rowId \in DOMAIN table'
          /\ UpdateAnswers(r)
             => /\ req'[r].status = 200
                /\ req[r].rowId \in DOMAIN table
                /\ req'[r].outRows = {OutRow(table, req[r].rowId)}]_vars

\* C23: an update or delete the gate lets through whose row id path segment
\* is no integer as a number is answered 400 "Invalid row id." at once, its
\* store handle closed, the table as before; no update or delete in flight
\* past that point carries a row id that is no integer, so no schema read,
\* access check or statement runs for one.
NonIntegerRowIdRejected ==
    [][\A r \in Slots :
          /\ (/\ Arriving(r)
              /\ req'[r].op \in {"update", "delete"}
              /\ req'[r].status # 401
              /\ req'[r].rowId \notin Nat)
             => /\ req'[r].pc = "done"
                /\ req'[r].status = 400
                /\ req'[r].error = InvalidRowId
                /\ req'[r].db = "closed"
                /\ req'[r].outRows = {}
                /\ table' = table
          /\ (req'[r].op \in {"update", "delete"} /\ req'[r].pc \notin {"idle", "done"})
             => req'[r].rowId \in Nat]_vars

\* a clerk's update of /api/claims/1.5 stands answered 400 while the table
\* holds her row
FractionRowIdAnswered ==
    \E r \in Slots :
        /\ req[r].op = "update" /\ req[r].pc = "done" /\ req[r].status = 400
        /\ req[r].rowId = Fraction
        /\ NonAdmin(req[r])
        /\ table = SeededTable

\* the rowids of the rows a response carries
RowidsOf(rows) == {row.rowid : row \in rows}

\* C24: while the schema has no column named zglaszajacy in any letter case,
\* a non-administrator's list selects every row of the table and answers
\* with those rows, and no update or delete of a non-administrator is
\* answered 403: for a row the table holds the statement is reached.
NoReporterColumnAllowsAll ==
    [][\A r \in Slots :
          (findColumnName(schema, "zglaszajacy") = NoName /\ NonAdmin(req[r]))
          => /\ (req[r].op = "list" /\ req[r].pc = "select" /\ req'[r].pc # "select")
                => IF DOMAIN table = {} THEN req'[r].pc = "done" /\ req'[r].outRows = {}
                   ELSE req'[r].pc = "enrich" /\ req'[r].outRows = SelectAll(table)
             /\ (req[r].op = "list" /\ req[r].pc = "enrich" /\ req'[r].pc # "enrich")
                => /\ req'[r].pc = "done" /\ req'[r].status = 200
                   /\ RowidsOf(req'[r].outRows) = RowidsOf(req[r].outRows)
             /\ (req[r].op \in {"update", "delete"} /\ req[r].pc = "schema"
                    /\ req'[r].pc # "schema")
                => /\ req'[r].status # 403
                   /\ (req[r].op = "delete" \/ req[r].rowId \in DOMAIN table)
                      => req'[r].pc = "write"
             /\ req'[r].status # 403]_vars

\* a clerk's list stands answered with the one row left after a clerk's
\* delete removed the other
ClerkListsAfterClerkDelete ==
    \E r \in Slots :
        /\ findColumnName(schema, "zglaszajacy") = NoName
        /\ req[r].op = "list" /\ req[r].pc = "done" /\ req[r].status = 200
        /\ NonAdmin(req[r])
        /\ RowidsOf(req[r].outRows) = DOMAIN table
        /\ Cardinality(DOMAIN table) = 1
        /\ removed # {}

\* the row carries a department: a cell dept or dzial that is neither NULL
\* nor empty
CarriesDept(row) ==
    \E k \in {"dept", "dzial"} \cap DOMAIN row.cols :
        row.cols[k] # NULL /\ row.cols[k] # EmptyStr

\* the department of the user whose full name is the row's reporter, the
\* empty string when there is no such user
ReporterDept(row) ==
    LET named == {i \in 1..Len(users) :
                     Trim(OrEmpty(users[i].first_name) \o <<Space>>
                             \o OrEmpty(users[i].last_name))
                         = OrEmpty(Get(row.cols, "zglaszajacy"))}
    IN  IF named = {} THEN EmptyStr ELSE OrEmpty(users[CHOOSE i \in named : TRUE].dept)

\* the row as a list is to return it
Enriched(row) ==
    IF CarriesDept(row) THEN row
    ELSE [row EXCEPT !.cols = [k \in DOMAIN row.cols \cup {"dept"} |->
                                  IF k = "dept" THEN ReporterDept(row) ELSE row.cols[k]]]

\* C25: a list returns each selected row unchanged when the row carries a
\* non-empty department in dept or in dzial, and otherwise with dept set to
\* the department of the user whose full name is the row's reporter, the
\* empty string when no user has that name; the table is left as it was.
ListEnrichesRowsWithoutDept ==
    [][\A r \in Slots :
          (req[r].op = "list" /\ req[r].pc = "enrich" /\ req'[r].pc = "done")
          => /\ req'[r].outRows = {Enriched(row) : row \in req[r].outRows}
             /\ table' = table]_vars

\* the numeric suffix of a claim number behind the prefix, 0 when the suffix
\* is empty or no number
SuffixValue(v, prefix) ==
    LET suffix == SubSeq(v, Len(prefix) + 1, Len(v))
    IN  IF Len(suffix) > 0 /\ \A i \in 1..Len(suffix) : IsDigit(suffix[i])
        THEN DigitsToNat(suffix) ELSE 0

\* the largest suffix among the claim numbers of the table that begin with
\* the prefix, 0 when none does
LargestSuffix(tbl, prefix) ==
    LET values == {tbl[i]["claim_number"] : i \in DOMAIN tbl}
        own == {v \in values : v # NULL /\ StartsWith(v, prefix)}
    IN  IF own = {} THEN 0
        ELSE CHOOSE m \in {SuffixValue(v, prefix) : v \in own} :
                 \A v \in own : SuffixValue(v, prefix) <= m

\* n in decimal, zeros in front up to three digits
ThreeDigits(n) ==
    IF n < 10 THEN <<"0", "0">> \o ToDigits(n)
    ELSE IF n < 100 THEN <<"0">> \o ToDigits(n)
    ELSE ToDigits(n)

\* C26: for the year of the create and the claim numbers the table holds, the
\* generator returns NZG-<year>-<m+1>, m the largest numeric suffix among the
\* values that begin with NZG-<year>- (0 for an empty or non-numeric suffix
\* and when no value begins so), written with at least three digits.
GeneratorReturnsMaxPlusOne ==
    [][\A r \in Slots :
          (req[r].op = "create" /\ req[r].pc = "scan" /\ req'[r].pc # "scan")
          => LET prefix == <<"N", "Z", "G", "-">> \o ToDigits(req[r].now.getFullYear)
                               \o <<"-">>
             IN  req'[r].num = prefix \o ThreeDigits(LargestSuffix(table, prefix) + 1)]_vars

\* C27: no request in flight is dropped: each step of a request, a failed
\* store operation included, leaves the request in flight or answers it,
\* a failure with 500 and an error message; a step that fails one request
\* leaves every other request in flight where it was.
EveryRequestAnswered ==
    [][\A r \in Slots :
          /\ (Busy(r) /\ req[r].pc # "lost") => req'[r].pc # "lost"
          /\ req'[r].status = 500
             => req'[r].pc = "done" /\ req'[r].error = FailedTo
          /\ (req'[r].status = 500 /\ req[r].status # 500)
             => \A q \in Slots \ {r} : Busy(q) => req'[q] = req[q]]_vars

\* the gate answered the request of frame f
GateRejected(f) == f.op \in GatedRoutes /\ f.status = 401

\* C28: a handler that opened a store handle has closed it, once, when its
\* request is answered, whatever the exit: success, validation failure,
\* access denial, not found, store error; a request in flight holds its own
\* open handle, a request the gate answered and the logout and me routes
\* hold none; with no request in flight no handle is open.
HandleClosedOnEveryExit ==
    /\ \A r \in Slots :
          /\ req[r].db # "misuse"
          /\ req[r].pc = "idle" => req[r].db = "none"
          /\ (Busy(r) /\ req[r].pc # "lost") => req[r].db = "open"
          /\ req[r].pc = "done"
             => req[r].db = IF GateRejected(req[r]) \/ req[r].op \in {"logout", "me"}
                            THEN "none" ELSE "closed"
    /\ Quiet => \A r \in Slots : req[r].db # "open"

\* an update answered 403 and a request answered 500 after a store failure
\* stand side by side, both handles closed
DeniedAndFailedBothClosed ==
    \E r, q \in Slots :
        /\ req[r].op = "update" /\ req[r].pc = "done" /\ req[r].status = 403
        /\ req[r].db = "closed"
        /\ req[q].pc = "done" /\ req[q].status = 500 /\ req[q].db = "closed"

\* the delete in slot r runs its statement and answers in this step
DeleteAnswers(r) ==
    req[r].op = "delete" /\ req[r].pc = "write" /\ req'[r].pc = "done"

\* the delete in slot q has passed its access check for the row the delete
\* in slot r names and has not run its statement
RacesForRow(q, r) ==
    /\ q # r
    /\ req[q].op = "delete" /\ req[q].pc = "write"
    /\ req[q].rowId = req[r].rowId

\* C29: of two deletes in flight for the same row, both past the access
\* check, the one whose statement runs first is answered 200 with the row
\* id and removes that row and no other; the other one, when its statement
\* runs, is answered 404 and removes nothing.
ConcurrentDeletesOneWins ==
    [][\A r \in Slots :
          DeleteAnswers(r)
          => IF req[r].vanished
             THEN req'[r].status = 404 /\ table' = table
             ELSE IF req[r].rowId \in DOMAIN table
             THEN /\ req'[r].status = 200
                  /\ req'[r].rowId = req[r].rowId
                  /\ table' = [i \in DOMAIN table \ {req[r].rowId} |-> table[i]]
                  /\ \A q \in Slots :
                        RacesForRow(q, r) => req'[q].vanished /\ req'[q].pc = "write"
             ELSE req'[r].status = 404 /\ table' = table]_vars

\* the administrator's and the clerk's deletes of row 1 stand answered, one
\* with 200 and one with 404, and row 2 is still there
OneDeleted200Other404 ==
    \E r, q \in Slots :
        /\ req[r].op = "delete" /\ req[r].pc = "done" /\ req[r].status = 200
        /\ req[q].op = "delete" /\ req[q].pc = "done" /\ req[q].status = 404
        /\ req[q].vanished
        /\ req[r].rowId = 1 /\ req[q].rowId = 1
        /\ req[r].user.role # req[q].user.role
        /\ DOMAIN table = {2}

\* the row was inserted by a create of this account.  A create writes the
\* caller's department into the row (line 305); where the accounts have
\* departments of their own and no request changes a department cell, the
\* cell tells the account
InsertedBy(cols, user) == OrEmpty(Get(cols, "dept")) = OrEmpty(user.dept)

\* C30: the rows a non-administrator's list selects, and the row an UPDATE or
\* DELETE statement run for a non-administrator changes or removes, were
\* inserted by creates of the caller's own account, another account having
\* the same full name or not.
RowsFollowAccount ==
    [][\A r \in Slots :
          NonAdmin(req[r])
          => /\ (req[r].op = "list" /\ req[r].pc = "select" /\ req'[r].pc # "select")
                => \A row \in req'[r].outRows : InsertedBy(row.cols, req[r].user)
             /\ StatementChanges(r)
                => /\ req[r].rowId \in DOMAIN table
                   /\ InsertedBy(table[req[r].rowId], req[r].user)]_vars

====
